---- MODULE Spec2Model ----
(***************************************************************************)
(* GopherGuard (tonyjoanes/gopher-guard): the AegisWatch reconciler, the   *)
(* diagnosis client and the healing pull-request workflow, as a state      *)
(* machine.  One AegisWatch resource, reconciled by one worker at a time.  *)
(* The resource exists until an invocation finds it deleted, which ends    *)
(* the behaviour.  The controller is the only writer of the status, but in *)
(* PatchSpec, where patchStatus runs step by step among other writers.     *)
(* In CommitSpec, CreateHealingPR runs step by step among other writers of *)
(* the repository.                                                         *)
(***************************************************************************)
EXTENDS Integers, Sequences, FiniteSets, TLC

VARIABLES
    spec,        \* watch.Spec of the AegisWatch resource (owner-edited)
    status,      \* watch.Status as persisted by the API server
    pc,          \* position of the worker inside Reconcile
    watch,       \* Reconcile's local copy of the resource status (r.Get at step 1)
    deployment,  \* the Deployment fetched at step 2 (with its listed pods)
    obs,         \* the ObservabilityContext of step 4a
    diagnosis,   \* the Diagnosis returned by runDiagnosis
    prURL,       \* Reconcile's local prURL
    result,      \* what Reconcile returned
    trace,       \* the calls and events of the current invocation, in order
    cancelled,   \* ctx of the current invocation is cancelled
    prsOpened,   \* pull requests opened in the repository so far
    commit,      \* manifest fields changed by the commit of the current invocation
    faults,      \* failed status patches, cancellations and writes of other writers so far
    args,        \* function-level specifications: the arguments of the call
    ret,         \* function-level specifications: what the call returned
    fresh,       \* a call taken step by step: what it has read so far
    repository   \* CreateHealingPR taken step by step: the manifest on the branches

vars == <<spec, status, pc, watch, deployment, obs, diagnosis, prURL, result,
          trace, cancelled, prsOpened, commit, faults, args, ret, fresh, repository>>

----------------------------------------------------------------------------
(* Bounds *)

\* At most MaxFaults status patches fail, invocations are cancelled or other writers
\* write the status in a behaviour.
MaxFaults == 1

\* At most MaxPods pods are listed for the workload.
MaxPods == 2

\* The event list holds at most MaxMixed events of mixed kinds, besides a run of like ones.
MaxMixed == 2

----------------------------------------------------------------------------
(* Program constants *)

MaxHealingAttempts == 5
DefaultRestartThreshold == 3

PhaseWatching == "Watching"
PhaseDegraded == "Degraded"
PhaseHealing  == "Healing"
PhaseHealthy  == "Healthy"

\* The empty string of Go, for the string-typed fields modelled as tuples.
NoText == <<>>
\* A nil *metav1.Time.
NoTime == 0
\* The empty URL; the URL of a pull request is modelled by its number.
NoURL == 0
\* No call: the arguments or the return value before a call is made.
NoCall == <<>>
\* Nothing read yet (patchStatus: the re-fetch; CreateHealingPR: the manifest).
NoRead == <<>>
\* No repository is involved.
NoRepository == <<>>

----------------------------------------------------------------------------
(* Anomaly detection *)

Container(name, restarts, waiting, lastTerm) ==
    [name |-> name, restartCount |-> restarts, waiting |-> waiting, lastTerminated |-> lastTerm]

Pod(name, containers) == [name |-> name, containers |-> containers]

Deployment(hasSelector, pods, unavailable) ==
    [selector |-> hasSelector, pods |-> pods, unavailableReplicas |-> unavailable]

\* Per-container checks whose restart test is strict.
ContainerAnomaly_StrictRestarts(pod, cs, restartThreshold) ==
    IF cs.restartCount > restartThreshold
    THEN [anomaly |-> TRUE, kind |-> "restarts", pod |-> pod.name, container |-> cs.name, n |-> cs.restartCount]
    ELSE IF cs.waiting \in {"CrashLoopBackOff", "OOMKilled"}
    THEN [anomaly |-> TRUE, kind |-> cs.waiting, pod |-> pod.name, container |-> cs.name, n |-> 0]
    ELSE IF cs.lastTerminated = "OOMKilled"
    THEN [anomaly |-> TRUE, kind |-> "wasOOMKilled", pod |-> pod.name, container |-> cs.name, n |-> 0]
    ELSE [anomaly |-> FALSE, kind |-> "", pod |-> "", container |-> "", n |-> 0]

\* The per-container checks of detectAnomaly, in source order.
ContainerAnomaly(pod, cs, restartThreshold) ==
    IF cs.restartCount >= restartThreshold
    THEN [anomaly |-> TRUE, kind |-> "restarts", pod |-> pod.name, container |-> cs.name, n |-> cs.restartCount]
    ELSE IF cs.waiting \in {"CrashLoopBackOff", "OOMKilled"}
    THEN [anomaly |-> TRUE, kind |-> cs.waiting, pod |-> pod.name, container |-> cs.name, n |-> 0]
    ELSE IF cs.lastTerminated = "OOMKilled"
    THEN [anomaly |-> TRUE, kind |-> "wasOOMKilled", pod |-> pod.name, container |-> cs.name, n |-> 0]
    ELSE [anomaly |-> FALSE, kind |-> "", pod |-> "", container |-> "", n |-> 0]

NoAnomaly == [anomaly |-> FALSE, kind |-> "", pod |-> "", container |-> "", n |-> 0]

RECURSIVE ScanContainers(_, _, _, _)
ScanContainers(pod, cs, i, restartThreshold) ==
    IF i > Len(cs) THEN NoAnomaly
    ELSE LET r == ContainerAnomaly(pod, cs[i], restartThreshold)
         IN IF r.anomaly THEN r ELSE ScanContainers(pod, cs, i + 1, restartThreshold)

\* A scan of the pods that reports the last match.
RECURSIVE ScanPods_LastMatch(_, _, _)
ScanPods_LastMatch(pods, i, restartThreshold) ==
    IF i > Len(pods) THEN NoAnomaly
    ELSE LET r == ScanPods_LastMatch(pods, i + 1, restartThreshold)
         IN IF r.anomaly THEN r ELSE ScanContainers(pods[i], pods[i].containers, 1, restartThreshold)

RECURSIVE ScanPods(_, _, _)
ScanPods(pods, i, restartThreshold) ==
    IF i > Len(pods) THEN NoAnomaly
    ELSE LET r == ScanContainers(pods[i], pods[i].containers, 1, restartThreshold)
         IN IF r.anomaly THEN r ELSE ScanPods(pods, i + 1, restartThreshold)

selectorFromDeployment(d) == d.selector

\* A detectAnomaly for which a workload without selector has no pods, so no anomaly.
detectAnomaly_NoSelectorIsHealthy(d, listOK, restartThreshold) ==
    IF ~selectorFromDeployment(d) THEN [err |-> "", r |-> NoAnomaly]
    ELSE IF ~listOK THEN [err |-> "list", r |-> NoAnomaly]
    ELSE LET r == ScanPods(d.pods, 1, restartThreshold)
         IN IF r.anomaly THEN [err |-> "", r |-> r]
            ELSE IF d.unavailableReplicas > 0
            THEN [err |-> "", r |-> [anomaly |-> TRUE, kind |-> "unavailable", pod |-> "",
                                     container |-> "", n |-> d.unavailableReplicas]]
            ELSE [err |-> "", r |-> NoAnomaly]

\* detectAnomaly: err is "selector" (no matchLabels), "list" (pod list failed) or "".
detectAnomaly(d, listOK, restartThreshold) ==
    IF ~selectorFromDeployment(d) THEN [err |-> "selector", r |-> NoAnomaly]
    ELSE IF ~listOK THEN [err |-> "list", r |-> NoAnomaly]
    ELSE LET r == ScanPods(d.pods, 1, restartThreshold)
         IN IF r.anomaly THEN [err |-> "", r |-> r]
            ELSE IF d.unavailableReplicas > 0
            THEN [err |-> "", r |-> [anomaly |-> TRUE, kind |-> "unavailable", pod |-> "",
                                     container |-> "", n |-> d.unavailableReplicas]]
            ELSE [err |-> "", r |-> NoAnomaly]

\* Reconcile step 3: a zero threshold means the default.
Threshold(s) == IF s.restartThreshold = 0 THEN DefaultRestartThreshold ELSE s.restartThreshold

\* The workloads Reconcile meets in the main specification: a healthy one, a failing
\* one, and one without a pod selector (whose pods are never listed).
Workloads ==
    { Deployment(TRUE, << Pod("p1", << Container("app", 0, "", "") >>) >>, 0),
      Deployment(TRUE, << Pod("p1", << Container("app", 4, "CrashLoopBackOff", "Error") >>) >>, 1),
      Deployment(FALSE, << >>, 1) }

NoDeployment == Deployment(FALSE, << >>, 0)

----------------------------------------------------------------------------
(* Status *)

\* A fresh AegisWatch: every status field has its zero value.
ZeroStatus ==
    [phase |-> "", lastDiagnosis |-> NoText, lastPRURL |-> NoURL, healingScore |-> 0,
     lastAnomalyTime |-> NoTime, conditions |-> << >>]

\* A setHealthy that also clears the healing score.
SetHealthyMut_Reset(w) == [w EXCEPT !.phase = PhaseHealthy, !.healingScore = 0]

\* The mutation functions handed to patchStatus.
SetHealthyMut(w) == [w EXCEPT !.phase = PhaseHealthy]

SetHealingMut(w, now) == [w EXCEPT !.phase = PhaseHealing, !.lastAnomalyTime = now]

\* A failure path that forgets to set the phase.
SetDegradedMut_Keep(w) == w

SetDegradedMut(w) == [w EXCEPT !.phase = PhaseDegraded]

diagSummary(d) == <<d.rootCause, d.wittyLine>>

\* A final patch that counts every cycle, with or without a pull request.
UpdateStatusMut_AlwaysCount(w, d, url) ==
    [w EXCEPT !.phase = PhaseDegraded, !.lastDiagnosis = <<d.rootCause, d.wittyLine>>,
              !.lastPRURL = url, !.healingScore = w.healingScore + 1]

\* A final patch that records the diagnosis only along with a pull request.
UpdateStatusMut_DropDiagnosis(w, d, url) ==
    IF url # NoURL
    THEN [w EXCEPT !.phase = PhaseDegraded, !.lastDiagnosis = <<d.rootCause, d.wittyLine>>,
                   !.lastPRURL = url, !.healingScore = w.healingScore + 1]
    ELSE [w EXCEPT !.phase = PhaseDegraded]

\* A final mutation that starts the count again when no pull request was opened.
UpdateStatusMut_ResetOnNoPR(w, d, url) ==
    IF url # NoURL
    THEN [w EXCEPT !.phase = PhaseDegraded, !.lastDiagnosis = diagSummary(d),
                   !.lastPRURL = url, !.healingScore = w.healingScore + 1]
    ELSE [w EXCEPT !.phase = PhaseDegraded, !.lastDiagnosis = diagSummary(d),
                   !.healingScore = 0]

UpdateStatusMut(w, d, url) ==
    IF url # NoURL
    THEN [w EXCEPT !.phase = PhaseDegraded, !.lastDiagnosis = diagSummary(d),
                   !.lastPRURL = url, !.healingScore = w.healingScore + 1]
    ELSE [w EXCEPT !.phase = PhaseDegraded, !.lastDiagnosis = diagSummary(d)]

\* Outcomes of patchStatus: the re-fetch fails, the patch fails, or both succeed.
PatchOutcomes ==
    IF cancelled THEN {"getErr"}
    ELSE IF faults < MaxFaults THEN {"ok", "getErr", "patchErr"}
    ELSE {"ok"}

----------------------------------------------------------------------------
(* Watch spec *)

\* spec.gitRepo as a string of characters.
GoodRepo == <<"o", "/", "r">>
BadRepo  == <<"o", "r">>

WatchSpec(safe, provider, llmRef, repo, gitRef, threshold) ==
    [safeMode |-> safe, llmProvider |-> provider, llmSecretRef |-> llmRef,
     gitRepo |-> repo, gitSecretRef |-> gitRef, restartThreshold |-> threshold]

\* The resources reconciled in the main specification.
WatchSpecs ==
    { WatchSpec(FALSE, "groq",   "llm-secret", GoodRepo, "git-secret", 0),
      WatchSpec(TRUE,  "groq",   "llm-secret", GoodRepo, "git-secret", 0),
      WatchSpec(FALSE, "ollama", "",           BadRepo,  "git-secret", 5),
      WatchSpec(FALSE, "",       "llm-secret", GoodRepo, "",           0) }

\* readSecretKey: store is what the cluster answers for the secret ("ok", "noSecret", "noKey").
readSecretKey(secretName, store) ==
    IF secretName = "" THEN "emptyName"
    ELSE IF cancelled THEN "noSecret"
    ELSE store

SecretStores == {"ok", "noSecret", "noKey"}

RECURSIVE IndexOfSlash(_, _)
IndexOfSlash(s, i) ==
    IF i > Len(s) THEN 0 ELSE IF s[i] = "/" THEN i ELSE IndexOfSlash(s, i + 1)

\* SplitRepo: strings.SplitN(gitRepo, "/", 2), both parts non-empty.
SplitRepo(gitRepo) ==
    LET k == IndexOfSlash(gitRepo, 1)
    IN IF k = 0 \/ k = 1 \/ k = Len(gitRepo)
       THEN [err |-> TRUE, owner |-> <<>>, repo |-> <<>>]
       ELSE [err |-> FALSE, owner |-> SubSeq(gitRepo, 1, k - 1),
             repo |-> SubSeq(gitRepo, k + 1, Len(gitRepo))]

----------------------------------------------------------------------------
(* Diagnosis engine *)

\* Manifest fields a patch can set; the allow-list of SystemPrompt's PATCH RULES.
Fields == {"limits", "replicas", "image"}
AllowedFields == {"limits", "replicas"}

\* Diagnosis.YAMLPatch: the empty string, a YAML fragment setting fields, or text
\* that is not YAML.
EmptyPatch == [kind |-> "empty", sets |-> {}]
YAMLPatch(sets) == [kind |-> "yaml", sets |-> sets]
GarbagePatch == [kind |-> "garbage", sets |-> {}]

PatchedFields(p) == {fv[1] : fv \in p.sets}

\* One oracle answer as seen by diagnoseOnce.
Reply(kind, rootCause, patch, witty) ==
    [kind |-> kind, rootCause |-> rootCause, patch |-> patch, wittyLine |-> witty]

NoDiagnosis == [rootCause |-> "", patch |-> EmptyPatch, wittyLine |-> ""]

\* A parser that accepts any JSON object.
parseDiagnosis_AcceptEmpty(reply) ==
    IF reply.kind = "malformed" THEN [err |-> TRUE, d |-> NoDiagnosis]
    ELSE [err |-> FALSE,
          d |-> [rootCause |-> reply.rootCause, patch |-> reply.patch, wittyLine |-> reply.wittyLine]]

\* parseDiagnosis: content that is not JSON, or JSON with an empty rootCause, is an error.
parseDiagnosis(reply) ==
    IF reply.kind = "malformed" THEN [err |-> TRUE, d |-> NoDiagnosis]
    ELSE IF reply.rootCause = "" THEN [err |-> TRUE, d |-> NoDiagnosis]
    ELSE [err |-> FALSE,
          d |-> [rootCause |-> reply.rootCause, patch |-> reply.patch, wittyLine |-> reply.wittyLine]]

\* diagnoseOnce: transport errors, API errors and empty choices fail before parsing.
diagnoseOnce(reply) ==
    IF cancelled \/ reply.kind \in {"transport", "apiError", "noChoices"}
    THEN [err |-> TRUE, d |-> NoDiagnosis]
    ELSE parseDiagnosis(reply)

\* A loop that asks a third time after two failures.
Diagnose_ThirdAttempt(r1, r2) ==
    LET a1 == diagnoseOnce(r1)
        a2 == diagnoseOnce(r2)
    IN IF ~a1.err THEN [err |-> FALSE, d |-> a1.d, calls |-> <<"oracle">>]
       ELSE IF ~a2.err THEN [err |-> FALSE, d |-> a2.d, calls |-> <<"oracle", "oracle">>]
       ELSE [err |-> TRUE, d |-> NoDiagnosis, calls |-> <<"oracle", "oracle", "oracle">>]

\* Diagnose: the loop "for attempt := 0; attempt < 2; attempt++".
Diagnose(r1, r2) ==
    LET a1 == diagnoseOnce(r1)
        a2 == diagnoseOnce(r2)
    IN IF ~a1.err THEN [err |-> FALSE, d |-> a1.d, calls |-> <<"oracle">>]
       ELSE IF ~a2.err THEN [err |-> FALSE, d |-> a2.d, calls |-> <<"oracle", "oracle">>]
       ELSE [err |-> TRUE, d |-> NoDiagnosis, calls |-> <<"oracle", "oracle">>]

\* A NewFromSpec whose default case falls back to the Groq client.
NewFromSpec_DefaultGroq(s, store) ==
    IF s.llmProvider \in {"groq", "openai"}
    THEN IF readSecretKey(s.llmSecretRef, store) = "ok" THEN "groq" ELSE "error"
    ELSE IF s.llmProvider = "ollama" THEN "ollama"
    ELSE "groq"

\* NewFromSpec: the backend for spec.llmProvider (openai uses the Groq client), or an
\* error.
NewFromSpec(s, store) ==
    IF s.llmProvider \in {"groq", "openai"}
    THEN IF readSecretKey(s.llmSecretRef, store) = "ok" THEN "groq" ELSE "error"
    ELSE IF s.llmProvider = "ollama" THEN "ollama"
    ELSE "error"

\* runDiagnosis: build the client, then Diagnose.
runDiagnosis(s, store, r1, r2) ==
    IF NewFromSpec(s, store) = "error"
    THEN [err |-> TRUE, d |-> NoDiagnosis, calls |-> <<"NewFromSpec">>]
    ELSE LET res == Diagnose(r1, r2)
         IN [err |-> res.err, d |-> res.d, calls |-> <<"NewFromSpec">> \o res.calls]

\* The oracle answers of the main specification.
Replies ==
    { Reply("transport", "", EmptyPatch, ""),
      Reply("malformed", "", EmptyPatch, ""),
      Reply("json", "", YAMLPatch({<<"limits", 1>>}), "w"),
      Reply("json", "rc1", YAMLPatch({<<"limits", 1>>}), "w"),
      Reply("json", "rc1", YAMLPatch({<<"limits", 0>>}), "w"),
      Reply("json", "rc1", YAMLPatch({<<"image", 1>>}), "w"),
      Reply("json", "rc1", GarbagePatch, "w"),
      Reply("json", "rc2", EmptyPatch, "w") }

----------------------------------------------------------------------------
(* Remediation workflow *)

\* A manifest file: valid says the text is YAML, canonical says the text is byte for
\* byte what yaml.JSONToYAML prints for its content, fields is the content.
Manifest(valid, canonical, fields) == [valid |-> valid, canonical |-> canonical, fields |-> fields]

BaseFields == [f \in Fields |-> 0]

NoManifest == Manifest(FALSE, FALSE, BaseFields)

\* The strategic merge of a patch into the manifest content.
StrategicMergePatch(fields, p) ==
    [f \in Fields |-> IF f \in PatchedFields(p)
                      THEN (CHOOSE fv \in p.sets : fv[1] = f)[2]
                      ELSE fields[f]]

\* An ApplyYAMLPatch that converts the current content before it looks at the patch.
ApplyYAMLPatch_ConvertFirst(currentYAML, patchYAML) ==
    IF ~currentYAML.valid THEN [err |-> TRUE, out |-> NoManifest]
    ELSE IF patchYAML.kind = "empty" THEN [err |-> FALSE, out |-> currentYAML]
    ELSE IF patchYAML.kind = "garbage" THEN [err |-> TRUE, out |-> NoManifest]
    ELSE [err |-> FALSE,
          out |-> Manifest(TRUE, TRUE, StrategicMergePatch(currentYAML.fields, patchYAML))]

\* ApplyYAMLPatch: YAML -> JSON, strategic merge, JSON -> YAML.
ApplyYAMLPatch(currentYAML, patchYAML) ==
    IF patchYAML.kind = "empty" THEN [err |-> FALSE, out |-> currentYAML]
    ELSE IF ~currentYAML.valid THEN [err |-> TRUE, out |-> NoManifest]
    ELSE IF patchYAML.kind = "garbage" THEN [err |-> TRUE, out |-> NoManifest]
    ELSE [err |-> FALSE,
          out |-> Manifest(TRUE, TRUE, StrategicMergePatch(currentYAML.fields, patchYAML))]

\* conventionalPaths has five entries.
NumConventionalPaths == 5

\* What the Contents API answers for one path: "missing" (error), "file" (base64
\* content), "notBase64" (other encoding) or "undecodable" (content that fails to decode).
RECURSIVE findDeploymentFile(_, _, _)
findDeploymentFile(files, i, calls) ==
    IF i > NumConventionalPaths
    THEN [err |-> TRUE, path |-> 0, calls |-> calls]
    ELSE LET c == Append(calls, "gh:GetContents")
         IN IF cancelled \/ files[i] \in {"missing", "notBase64"}
            THEN findDeploymentFile(files, i + 1, c)
            ELSE IF files[i] = "undecodable"
            THEN [err |-> TRUE, path |-> 0, calls |-> c]
            ELSE [err |-> FALSE, path |-> i, calls |-> c]

\* The fields in which two manifests differ.
ChangedFields(a, b) == {f \in Fields : a.fields[f] # b.fields[f]}

\* The first API call of CreateHealingPR that fails, if any.
GHFailPoints == {"none", "defaultBranch", "getRef", "createRef", "commitFile", "openPR"}

\* reason names the step whose error is returned ("" when there is none).
NoPR == [err |-> TRUE, url |-> NoURL, calls |-> <<>>, committed |-> FALSE, changed |-> {},
         opened |-> FALSE, reason |-> ""]

\* A workflow that opens the pull request although the commit failed.
CreateHealingPR_IgnoreCommitError(d, repo) ==
    LET found == findDeploymentFile(repo.files, 1, <<>>)
        ap    == ApplyYAMLPatch(repo.content, d.patch)
        fail  == IF cancelled /\ repo.failAt = "none" THEN "defaultBranch" ELSE repo.failAt
        c3    == Append(found.calls, "gh:GetRepository")
        c4a   == Append(c3, "gh:GetRef")
        c4b   == Append(c4a, "gh:CreateRef")
        c5    == Append(c4b, "gh:UpdateFile")
        c6    == Append(c5, "gh:CreatePullRequest")
        diff  == ChangedFields(repo.content, ap.out)
    IN IF found.err THEN [NoPR EXCEPT !.calls = found.calls, !.reason = "find"]
       ELSE IF ap.err THEN [NoPR EXCEPT !.calls = found.calls, !.reason = "patch"]
       ELSE IF ap.out = repo.content THEN [NoPR EXCEPT !.calls = found.calls, !.reason = "noChange"]
       ELSE IF fail = "defaultBranch" THEN [NoPR EXCEPT !.calls = c3, !.reason = "defaultBranch"]
       ELSE IF fail = "getRef" THEN [NoPR EXCEPT !.calls = c4a, !.reason = "createBranch"]
       ELSE IF fail = "createRef" THEN [NoPR EXCEPT !.calls = c4b, !.reason = "createBranch"]
       ELSE IF fail = "openPR"
       THEN [NoPR EXCEPT !.calls = c6, !.committed = TRUE, !.changed = diff, !.reason = "openPR"]
       ELSE [err |-> FALSE, url |-> repo.url, calls |-> c6, committed |-> fail # "commitFile",
             changed |-> diff, opened |-> TRUE, reason |-> ""]

\* A workflow that compares the patched content with the original only after it has
\* created the branch.
CreateHealingPR_LateNoopCheck(d, repo) ==
    LET found == findDeploymentFile(repo.files, 1, <<>>)
        ap    == ApplyYAMLPatch(repo.content, d.patch)
        fail  == IF cancelled /\ repo.failAt = "none" THEN "defaultBranch" ELSE repo.failAt
        c3    == Append(found.calls, "gh:GetRepository")
        c4a   == Append(c3, "gh:GetRef")
        c4b   == Append(c4a, "gh:CreateRef")
        c5    == Append(c4b, "gh:UpdateFile")
        c6    == Append(c5, "gh:CreatePullRequest")
        diff  == ChangedFields(repo.content, ap.out)
    IN IF found.err THEN [NoPR EXCEPT !.calls = found.calls, !.reason = "find"]
       ELSE IF ap.err THEN [NoPR EXCEPT !.calls = found.calls, !.reason = "patch"]
       ELSE IF fail = "defaultBranch" THEN [NoPR EXCEPT !.calls = c3, !.reason = "defaultBranch"]
       ELSE IF fail = "getRef" THEN [NoPR EXCEPT !.calls = c4a, !.reason = "createBranch"]
       ELSE IF fail = "createRef" THEN [NoPR EXCEPT !.calls = c4b, !.reason = "createBranch"]
       ELSE IF ap.out = repo.content THEN [NoPR EXCEPT !.calls = c4b, !.reason = "noChange"]
       ELSE IF fail = "commitFile" THEN [NoPR EXCEPT !.calls = c5, !.reason = "commitFile"]
       ELSE IF fail = "openPR"
       THEN [NoPR EXCEPT !.calls = c6, !.committed = TRUE, !.changed = diff, !.reason = "openPR"]
       ELSE [err |-> FALSE, url |-> repo.url, calls |-> c6, committed |-> TRUE,
             changed |-> diff, opened |-> TRUE, reason |-> ""]

\* CreateHealingPR: find -> patch -> branch -> commit -> PR.  repo is what the
\* repository answers: the files at the conventional paths, the manifest content,
\* the failing call and the URL of the pull request it would create.
CreateHealingPR(d, repo) ==
    LET found == findDeploymentFile(repo.files, 1, <<>>)
        ap    == ApplyYAMLPatch(repo.content, d.patch)
        fail  == IF cancelled /\ repo.failAt = "none" THEN "defaultBranch" ELSE repo.failAt
        c3    == Append(found.calls, "gh:GetRepository")
        c4a   == Append(c3, "gh:GetRef")
        c4b   == Append(c4a, "gh:CreateRef")
        c5    == Append(c4b, "gh:UpdateFile")
        c6    == Append(c5, "gh:CreatePullRequest")
        diff  == ChangedFields(repo.content, ap.out)
    IN IF found.err THEN [NoPR EXCEPT !.calls = found.calls, !.reason = "find"]
       ELSE IF ap.err THEN [NoPR EXCEPT !.calls = found.calls, !.reason = "patch"]
       ELSE IF ap.out = repo.content THEN [NoPR EXCEPT !.calls = found.calls, !.reason = "noChange"]
       ELSE IF fail = "defaultBranch" THEN [NoPR EXCEPT !.calls = c3, !.reason = "defaultBranch"]
       ELSE IF fail = "getRef" THEN [NoPR EXCEPT !.calls = c4a, !.reason = "createBranch"]
       ELSE IF fail = "createRef" THEN [NoPR EXCEPT !.calls = c4b, !.reason = "createBranch"]
       ELSE IF fail = "commitFile" THEN [NoPR EXCEPT !.calls = c5, !.reason = "commitFile"]
       ELSE IF fail = "openPR"
       THEN [NoPR EXCEPT !.calls = c6, !.committed = TRUE, !.changed = diff, !.reason = "openPR"]
       ELSE [err |-> FALSE, url |-> repo.url, calls |-> c6, committed |-> TRUE,
             changed |-> diff, opened |-> TRUE, reason |-> ""]

Repo(files, content, failAt, url) ==
    [files |-> files, content |-> content, failAt |-> failAt, url |-> url]

\* What the repository holds in the main specification.
RepoFiles ==
    { <<"missing", "notBase64", "missing", "file", "missing">>,
      <<"missing", "missing", "missing", "missing", "missing">> }

Manifests == { Manifest(TRUE, TRUE, BaseFields), Manifest(TRUE, FALSE, BaseFields) }

\* pr.GetHTMLURL() of the next pull request.
NextPRURL == prsOpened + 1

Repos == { Repo(f, m, x, NextPRURL) : f \in RepoFiles, m \in Manifests, x \in GHFailPoints }

\* Guards that forget the safe-mode switch.
ShouldOpenPR_IgnoreSafeMode(s, d) == d.patch.kind # "empty"

\* The guards of maybeOpenPR before any repository call.
ShouldOpenPR(s, d) == ~s.safeMode /\ d.patch.kind # "empty"

\* maybeOpenPR: the result of CreateHealingPR, or the error met before it.
maybeOpenPR(s, d, store, repo) ==
    IF ~ShouldOpenPR(s, d)
    THEN [NoPR EXCEPT !.err = FALSE]
    ELSE IF readSecretKey(s.gitSecretRef, store) # "ok"
    THEN [NoPR EXCEPT !.calls = <<"readSecretKey:token">>, !.reason = "token"]
    ELSE IF SplitRepo(s.gitRepo).err
    THEN [NoPR EXCEPT !.calls = <<"readSecretKey:token">>, !.reason = "splitRepo"]
    ELSE LET r == CreateHealingPR(d, repo)
         IN [r EXCEPT !.calls = <<"readSecretKey:token", "CreateHealingPR">> \o r.calls]

----------------------------------------------------------------------------
(* Observability collector *)

maxEvents == 20

\* The monitored Deployment's name.
DeploymentName == "web"

\* What streamLogs returns: an error, or the text read (which can be empty).
StreamErr == [err |-> TRUE, text |-> ""]
StreamOK(text) == [err |-> FALSE, text |-> text]

\* FetchContainerLogs: the current instance first, then the previous one.  cur and prev
\* are what streamLogs returns for them.  Text is a tuple of its parts.
FetchContainerLogs(cur, prev) ==
    IF ~cur.err /\ cur.text # ""
    THEN [err |-> FALSE, logs |-> <<cur.text>>]
    ELSE IF prev.err
    THEN [err |-> TRUE, logs |-> <<>>]
    ELSE [err |-> FALSE, logs |-> <<"[previous container]", prev.text>>]

\* The placeholder Collect stores when FetchContainerLogs fails.
LogUnavailable == <<"[log unavailable]">>

\* A corev1.Event of the namespace.
KubeEventOf(type, kind, name, lastTimestamp, eventTime) ==
    [type |-> type, kind |-> kind, name |-> name, lastTimestamp |-> lastTimestamp,
     eventTime |-> eventTime]

\* time.Time.Truncate(0) strips the monotonic clock reading; a time decoded from the
\* API has none.
Truncate0(t) == t

LastSeen(ev) ==
    IF ev.lastTimestamp = NoTime /\ ev.eventTime # Truncate0(ev.eventTime)
    THEN ev.eventTime
    ELSE ev.lastTimestamp

\* The events FetchKubeEvents drops: those that are neither of type Warning nor about
\* one of the involved names.
Skipped(ev, involvedNames) == ev.type # "Warning" /\ ev.name \notin involvedNames

KubeEvent(ev) ==
    [type |-> ev.type, lastSeen |-> LastSeen(ev), involvedObject |-> <<ev.kind, ev.name>>]

\* sort.Slice with "LastSeen.After": e goes in before the first older entry.
RECURSIVE InsertNewestFirst(_, _)
InsertNewestFirst(sorted, e) ==
    IF sorted = <<>> THEN <<e>>
    ELSE IF e.lastSeen > Head(sorted).lastSeen THEN <<e>> \o sorted
    ELSE <<Head(sorted)>> \o InsertNewestFirst(Tail(sorted), e)

RECURSIVE SortNewestFirst(_)
SortNewestFirst(out) ==
    IF out = <<>> THEN <<>>
    ELSE InsertNewestFirst(SortNewestFirst(SubSeq(out, 1, Len(out) - 1)), out[Len(out)])

RECURSIVE FilterEvents(_, _)
FilterEvents(items, involvedNames) ==
    IF items = <<>> THEN <<>>
    ELSE IF Skipped(Head(items), involvedNames) THEN FilterEvents(Tail(items), involvedNames)
    ELSE <<KubeEvent(Head(items))>> \o FilterEvents(Tail(items), involvedNames)

\* FetchKubeEvents: list, filter, sort newest first, cap at maxEvents.
FetchKubeEvents(listOK, items, involvedNames) ==
    IF ~listOK THEN [err |-> TRUE, events |-> <<>>]
    ELSE LET out == SortNewestFirst(FilterEvents(items, involvedNames))
         IN [err |-> FALSE,
             events |-> IF Len(out) > maxEvents THEN SubSeq(out, 1, maxEvents) ELSE out]

\* A nil *PrometheusSnapshot.
NoMetrics == "nil"

\* QueryWorkload: prometheus is "disabled" (empty URL), "ok" or "err".
QueryWorkload(prometheus) ==
    IF prometheus = "disabled" THEN [err |-> FALSE, metrics |-> NoMetrics]
    ELSE IF prometheus = "err" THEN [err |-> TRUE, metrics |-> NoMetrics]
    ELSE [err |-> FALSE, metrics |-> "snapshot"]

containerStateString(cs) ==
    IF cs.waiting # "" THEN <<"waiting", cs.waiting>> ELSE <<"running">>

\* The containers of the listed pods, as <<pod index, container index>>.
Positions(d) ==
    UNION { { <<i, j>> : j \in 1..Len(d.pods[i].containers) } : i \in 1..Len(d.pods) }

At(d, q) == d.pods[q[1]].containers[q[2]]

ContainerSnapshot(cs, fetched) ==
    [name |-> cs.name, restartCount |-> cs.restartCount, state |-> containerStateString(cs),
     lastLogs |-> IF fetched.err THEN LogUnavailable ELSE fetched.logs]

NoObs == [pods |-> <<>>, kubeEvents |-> <<>>, metrics |-> NoMetrics]

\* The ObservabilityContext Reconcile holds: the workload identity, the anomaly reason
\* and the capture time, with what Collect gathered.
Context(reason, collectedAt, gathered) ==
    [deploymentName |-> DeploymentName, anomalyReason |-> reason, collectedAt |-> collectedAt,
     pods |-> gathered.pods, kubeEvents |-> gathered.kubeEvents, metrics |-> gathered.metrics]

\* The ObservabilityContext literal of step 4a: the fields not named keep their zero value.
MinimalContext(reason, collectedAt) ==
    [deploymentName |-> DeploymentName, anomalyReason |-> reason, collectedAt |-> collectedAt,
     pods |-> <<>>, kubeEvents |-> <<>>, metrics |-> NoMetrics]

\* No ObservabilityContext: before step 4a, and after step 4c, its last use.
NilContext ==
    [deploymentName |-> "", anomalyReason |-> NoAnomaly, collectedAt |-> NoTime,
     pods |-> <<>>, kubeEvents |-> <<>>, metrics |-> NoMetrics]

\* A Collect in which a failed event listing is a hard error.
CollectorCollect_EventsFatal(d, env) ==
    IF ~d.selector \/ ~env.listOK \/ ~env.eventsOK THEN [err |-> TRUE, obs |-> NoObs]
    ELSE [err |-> FALSE,
          obs |-> [pods |-> [i \in 1..Len(d.pods) |->
                       [name |-> d.pods[i].name,
                        containers |-> [j \in 1..Len(d.pods[i].containers) |->
                            ContainerSnapshot(d.pods[i].containers[j],
                                FetchContainerLogs(env.logs[<<i, j>>].cur, env.logs[<<i, j>>].prev))]]],
                   kubeEvents |-> <<>>,
                   metrics |-> NoMetrics]]

\* Collector.Collect.  d.selector = FALSE is a nil selector here.  env is what the
\* cluster answers: listOK for the pod list, logs for the two log streams of every
\* container, eventsOK and events for the event list, prometheus for the metrics
\* backend ("nil" when none is configured).
CollectorCollect(d, env) ==
    IF ~d.selector THEN [err |-> TRUE, obs |-> NoObs]
    ELSE IF ~env.listOK THEN [err |-> TRUE, obs |-> NoObs]
    ELSE LET involvedNames == {DeploymentName} \cup {d.pods[i].name : i \in 1..Len(d.pods)}
             ev == FetchKubeEvents(env.eventsOK, env.events, involvedNames)
             m  == QueryWorkload(env.prometheus)
         IN [err |-> FALSE,
             obs |-> [pods |-> [i \in 1..Len(d.pods) |->
                          [name |-> d.pods[i].name,
                           containers |-> [j \in 1..Len(d.pods[i].containers) |->
                               ContainerSnapshot(d.pods[i].containers[j],
                                   FetchContainerLogs(env.logs[<<i, j>>].cur, env.logs[<<i, j>>].prev))]]],
                      kubeEvents |-> IF ev.err THEN <<>> ELSE ev.events,
                      metrics |-> IF env.prometheus = "nil" \/ m.err THEN NoMetrics ELSE m.metrics]]

----------------------------------------------------------------------------
(* Notification *)

\* The HealingUpdate sendNotification builds from Reconcile's copy of the resource, the
\* diagnosis and prURL.
HealingUpdate(s, w, d, url) ==
    [deploymentName |-> DeploymentName, diagnosis |-> d, prURL |-> url,
     healingScore |-> w.healingScore + 1, safeMode |-> s.safeMode]

\* sendNotification: "sent", "failed" or "skipped" (no webhook URL configured).
sendNotification(s, store, webhookOK) ==
    LET webhookURL == IF s.gitSecretRef # "" /\ readSecretKey(s.gitSecretRef, store) = "ok"
                      THEN "url" ELSE ""
    IN IF webhookURL = "" THEN "skipped"
       ELSE IF cancelled \/ ~webhookOK THEN "failed"
       ELSE "sent"

----------------------------------------------------------------------------
(* Reconcile *)

\* Entries of trace.
Event(reason)         == <<"event", reason>>
Call(name)            == <<"call", name>>
Patched(what, outcome) == <<"patchStatus", what, outcome>>
\* The error of maybeOpenPR, as logged and as carried by the PRCreationFailed event.
Failed(reason)        == <<"error", reason>>
Calls(names)          == [i \in 1..Len(names) |-> Call(names[i])]

\* An anti-loop guard that is off by one.
CapReached_OffByOne(w) == w.healingScore > MaxHealingAttempts

\* The anti-loop guard of Reconcile.
CapReached(w) == w.healingScore >= MaxHealingAttempts

\* The AegisWatch resource as the API server holds it.
Object == [spec |-> spec, status |-> status]

\* A write of the whole object, with the threshold defaulted in place.
StatusPatch_WholeObject(object, modified) ==
    [spec |-> [modified.spec EXCEPT !.restartThreshold =
                  IF modified.spec.restartThreshold = 0 THEN DefaultRestartThreshold
                  ELSE modified.spec.restartThreshold],
     status |-> modified.status]

\* r.Status().Patch: the status subresource takes the .status of what is sent and
\* leaves the rest of the object as it is.
StatusPatch(object, modified) == [object EXCEPT !.status = modified.status]

\* patchStatus: re-fetch the resource, apply the mutation, patch .status.  The object as
\* persisted afterwards.
patchStatus(outcome, mutated) ==
    IF outcome = "ok" THEN StatusPatch(Object, [Object EXCEPT !.status = mutated]) ELSE Object

\* A failed patch of a live invocation uses up one fault.
Faulted(o) == IF o = "ok" \/ cancelled THEN faults ELSE faults + 1

\* metav1.Now(): later than, so different from, the time recorded before.
Now == IF status.lastAnomalyTime = 1 THEN 2 ELSE 1

\* A return that swallows the error.
Finish_ErrorDropped(res) == pc' = "done" /\ result' = IF res = "error" THEN "noRequeue" ELSE res

Finish(res) == pc' = "done" /\ result' = res

\* Steps 1 to 3 with an anti-loop guard that warns and goes on.
Reconcile_CapContinues(crGet, dGet, d, listOK) ==
    IF crGet = "notfound"
    THEN /\ watch' = ZeroStatus
         /\ deployment' = NoDeployment
         /\ trace' = <<>>
         /\ pc' = "gone"
         /\ result' = "noRequeue"
    ELSE IF crGet = "err"
    THEN /\ watch' = ZeroStatus
         /\ deployment' = NoDeployment
         /\ trace' = <<>>
         /\ Finish("error")
    ELSE /\ watch' = status
         /\ IF dGet = "notfound"
            THEN /\ deployment' = NoDeployment
                 /\ trace' = <<Event("DeploymentNotFound")>>
                 /\ Finish("requeueAfter")
            ELSE IF dGet = "err"
            THEN /\ deployment' = NoDeployment
                 /\ trace' = <<>>
                 /\ Finish("error")
            ELSE LET det == detectAnomaly(d, listOK, Threshold(spec))
                 IN /\ deployment' = d
                    /\ IF det.err # ""
                       THEN trace' = <<>> /\ Finish("error")
                       ELSE IF ~det.r.anomaly
                       THEN trace' = <<>> /\ pc' = "setHealthy" /\ result' = "running"
                       ELSE IF CapReached(status)
                       THEN /\ trace' = <<Event("AnomalyDetected"), Event("HealingCapReached")>>
                            /\ pc' = "collect"
                            /\ result' = "running"
                       ELSE /\ trace' = <<Event("AnomalyDetected")>>
                            /\ pc' = "collect"
                            /\ result' = "running"

\* Steps 1 to 3 where a missing workload is taken for a healthy one.
Reconcile_MissingIsHealthy(crGet, dGet, d, listOK) ==
    IF crGet = "notfound"
    THEN /\ watch' = ZeroStatus
         /\ deployment' = NoDeployment
         /\ trace' = <<>>
         /\ pc' = "gone"
         /\ result' = "noRequeue"
    ELSE IF crGet = "err"
    THEN /\ watch' = ZeroStatus
         /\ deployment' = NoDeployment
         /\ trace' = <<>>
         /\ Finish("error")
    ELSE /\ watch' = status
         /\ IF dGet = "notfound"
            THEN /\ deployment' = NoDeployment
                 /\ trace' = <<Event("DeploymentNotFound")>>
                 /\ pc' = "setHealthy"
                 /\ result' = "running"
            ELSE IF dGet = "err"
            THEN /\ deployment' = NoDeployment
                 /\ trace' = <<>>
                 /\ Finish("error")
            ELSE LET det == detectAnomaly(d, listOK, Threshold(spec))
                 IN /\ deployment' = d
                    /\ IF det.err # ""
                       THEN trace' = <<>> /\ Finish("error")
                       ELSE IF ~det.r.anomaly
                       THEN trace' = <<>> /\ pc' = "setHealthy" /\ result' = "running"
                       ELSE IF CapReached(status)
                       THEN /\ trace' = <<Event("AnomalyDetected"), Event("HealingCapReached")>>
                            /\ Finish("requeueAfter")
                       ELSE /\ trace' = <<Event("AnomalyDetected")>>
                            /\ pc' = "collect"
                            /\ result' = "running"

\* Steps 1 to 3 and the branch on the detection result.  crGet and dGet are the
\* outcomes of the two r.Get calls, d the Deployment found, listOK the pod list's.
\* A resource that is not found has been deleted: "return ctrl.Result{}, nil", and no
\* further invocation.
Reconcile(crGet, dGet, d, listOK) ==
    IF crGet = "notfound"
    THEN /\ watch' = ZeroStatus
         /\ deployment' = NoDeployment
         /\ trace' = <<>>
         /\ pc' = "gone"
         /\ result' = "noRequeue"
    ELSE IF crGet = "err"
    THEN /\ watch' = ZeroStatus
         /\ deployment' = NoDeployment
         /\ trace' = <<>>
         /\ Finish("error")
    ELSE /\ watch' = status
         /\ IF dGet = "notfound"
            THEN /\ deployment' = NoDeployment
                 /\ trace' = <<Event("DeploymentNotFound")>>
                 /\ Finish("requeueAfter")
            ELSE IF dGet = "err"
            THEN /\ deployment' = NoDeployment
                 /\ trace' = <<>>
                 /\ Finish("error")
            ELSE LET det == detectAnomaly(d, listOK, Threshold(spec))
                 IN /\ deployment' = d
                    /\ IF det.err # ""
                       THEN trace' = <<>> /\ Finish("error")
                       ELSE IF ~det.r.anomaly
                       THEN trace' = <<>> /\ pc' = "setHealthy" /\ result' = "running"
                       ELSE IF CapReached(status)
                       THEN /\ trace' = <<Event("AnomalyDetected"), Event("HealingCapReached")>>
                            /\ Finish("requeueAfter")
                       ELSE /\ trace' = <<Event("AnomalyDetected")>>
                            /\ pc' = "collect"
                            /\ result' = "running"

Start ==
    /\ pc \in {"idle", "done"}
    /\ cancelled' = FALSE
    /\ commit' = {}
    /\ obs' = NilContext
    /\ diagnosis' = NoDiagnosis
    /\ prURL' = NoURL
    /\ UNCHANGED <<spec, status, prsOpened, faults>>
    /\ \/ \E crGet \in {"notfound", "err"} : Reconcile(crGet, "ok", NoDeployment, TRUE)
       \/ \E dGet \in {"notfound", "err"} : Reconcile("ok", dGet, NoDeployment, TRUE)
       \/ \E d \in Workloads, listOK \in BOOLEAN : Reconcile("ok", "ok", d, listOK)
    /\ UNCHANGED <<args, ret, fresh, repository>>

\* setHealthy.
SetHealthy ==
    /\ pc = "setHealthy"
    /\ \E o \in PatchOutcomes :
         /\ status' = patchStatus(o, SetHealthyMut(status)).status
         /\ spec' = patchStatus(o, SetHealthyMut(status)).spec
         /\ faults' = Faulted(o)
         /\ trace' = Append(trace, Patched("Healthy", o))
         /\ Finish(IF o = "ok" THEN "requeueAfter" ELSE "error")
    /\ UNCHANGED <<watch, deployment, obs, diagnosis, prURL, cancelled, prsOpened, commit>>
    /\ UNCHANGED <<args, ret, fresh, repository>>

\* The reason string detectAnomaly returned at step 3, as Reconcile holds it.
AnomalyReason == detectAnomaly(deployment, TRUE, Threshold(spec)).r

\* What the cluster answers to the Collect of step 4a in the main specification: the pod
\* list fails or not, every container has logs, one event is listed, no metrics backend.
ReconcileEnvs(d) ==
    [listOK : BOOLEAN, logs : [Positions(d) -> {[cur |-> StreamOK("cur"), prev |-> StreamErr]}],
     eventsOK : {TRUE}, events : {<< KubeEventOf("Warning", "Pod", "p1", 5, NoTime) >>},
     prometheus : {"nil"}]

\* A step 4a that returns the error of Collect.
Collect_ErrorEndsCycle ==
    /\ pc = "collect"
    /\ \E env \in ReconcileEnvs(deployment) :
         LET c == CollectorCollect(deployment, env)
         IN IF cancelled \/ c.err
            THEN /\ obs' = NilContext
                 /\ Finish("error")
            ELSE /\ obs' = Context(AnomalyReason, Now, c.obs)
                 /\ pc' = "patchHealing"
                 /\ UNCHANGED result
    /\ trace' = Append(trace, Call("Collect"))
    /\ UNCHANGED <<spec, status, watch, deployment, diagnosis, prURL, cancelled,
                   prsOpened, commit, faults>>
    /\ UNCHANGED <<args, ret, fresh, repository>>

\* Step 4a: a hard error of Collect is replaced by a minimal context.
Collect ==
    /\ pc = "collect"
    /\ \E env \in ReconcileEnvs(deployment) :
         LET c == CollectorCollect(deployment, env)
         IN obs' = IF cancelled \/ c.err THEN MinimalContext(AnomalyReason, Now)
                   ELSE Context(AnomalyReason, Now, c.obs)
    /\ trace' = Append(trace, Call("Collect"))
    /\ pc' = "patchHealing"
    /\ UNCHANGED <<spec, status, watch, deployment, diagnosis, prURL, result, cancelled,
                   prsOpened, commit, faults>>
    /\ UNCHANGED <<args, ret, fresh, repository>>

\* A step 4b that goes on to the diagnosis whether or not the patch succeeded.
PatchHealing_Continue ==
    /\ pc = "patchHealing"
    /\ \E o \in PatchOutcomes :
         /\ status' = patchStatus(o, SetHealingMut(status, Now)).status
         /\ spec' = patchStatus(o, SetHealingMut(status, Now)).spec
         /\ faults' = Faulted(o)
         /\ trace' = Append(trace, Patched("Healing", o))
         /\ pc' = "runDiagnosis"
         /\ UNCHANGED result
    /\ UNCHANGED <<watch, deployment, obs, diagnosis, prURL, cancelled, prsOpened, commit>>
    /\ UNCHANGED <<args, ret, fresh, repository>>

\* Step 4b.
PatchHealing ==
    /\ pc = "patchHealing"
    /\ \E o \in PatchOutcomes :
         /\ status' = patchStatus(o, SetHealingMut(status, Now)).status
         /\ spec' = patchStatus(o, SetHealingMut(status, Now)).spec
         /\ faults' = Faulted(o)
         /\ trace' = Append(trace, Patched("Healing", o))
         /\ IF o = "ok" THEN pc' = "runDiagnosis" /\ UNCHANGED result
            ELSE Finish("error")
    /\ UNCHANGED <<watch, deployment, obs, diagnosis, prURL, cancelled, prsOpened, commit>>
    /\ UNCHANGED <<args, ret, fresh, repository>>

\* A step 4c that only logs a failed diagnosis.
RunDiagnosis_SilentFailure ==
    /\ pc = "runDiagnosis"
    /\ \E store \in SecretStores, r1 \in Replies :
       \E r2 \in IF diagnoseOnce(r1).err THEN Replies ELSE {r1} :
         LET res == runDiagnosis(spec, store, r1, r2)
         IN /\ diagnosis' = res.d
            /\ obs' = NilContext
            /\ IF res.err
               THEN /\ trace' = trace \o Calls(res.calls)
                    /\ pc' = "patchDegraded"
               ELSE /\ trace' = trace \o Calls(res.calls) \o <<Event("DiagnosisComplete")>>
                    /\ pc' = "maybeOpenPR"
    /\ UNCHANGED <<spec, status, watch, deployment, prURL, result, cancelled, prsOpened,
                   commit, faults>>
    /\ UNCHANGED <<args, ret, fresh, repository>>

\* Step 4c with what the cluster and the oracle answer: store for the secret, r1 and r2
\* for the first and the second attempt.  The snapshot is not used after this step.
RunDiagnosisWith(store, r1, r2) ==
    /\ pc = "runDiagnosis"
    /\ LET res == runDiagnosis(spec, store, r1, r2)
       IN /\ diagnosis' = res.d
          /\ obs' = NilContext
          /\ IF res.err
             THEN /\ trace' = trace \o Calls(res.calls) \o <<Event("DiagnosisFailed")>>
                  /\ pc' = "patchDegraded"
             ELSE /\ trace' = trace \o Calls(res.calls) \o <<Event("DiagnosisComplete")>>
                  /\ pc' = "maybeOpenPR"
    /\ UNCHANGED <<spec, status, watch, deployment, prURL, result, cancelled, prsOpened,
                   commit, faults>>
    /\ UNCHANGED <<args, ret, fresh, repository>>

\* Step 4c.
RunDiagnosis ==
    \E store \in SecretStores, r1 \in Replies :
    \E r2 \in IF diagnoseOnce(r1).err THEN Replies ELSE {r1} :
        RunDiagnosisWith(store, r1, r2)

\* Step 4c, diagnosis failed: the error of this patchStatus is discarded.
PatchDegraded ==
    /\ pc = "patchDegraded"
    /\ \E o \in PatchOutcomes :
         /\ status' = patchStatus(o, SetDegradedMut(status)).status
         /\ spec' = patchStatus(o, SetDegradedMut(status)).spec
         /\ faults' = Faulted(o)
         /\ trace' = Append(trace, Patched("Degraded", o))
    /\ Finish("requeueAfter")
    /\ UNCHANGED <<watch, deployment, obs, diagnosis, prURL, cancelled, prsOpened, commit>>
    /\ UNCHANGED <<args, ret, fresh, repository>>

\* Step 4d.
MaybeOpenPR ==
    /\ pc = "maybeOpenPR"
    /\ \E store \in SecretStores, repo \in Repos :
         LET r == maybeOpenPR(spec, diagnosis, store, repo)
         IN /\ prURL' = r.url
            /\ prsOpened' = IF r.opened THEN prsOpened + 1 ELSE prsOpened
            /\ commit' = IF r.committed THEN r.changed ELSE commit
            /\ trace' = trace \o Calls(r.calls) \o
                        (IF r.err THEN <<Failed(r.reason), Event("PRCreationFailed")>>
                         ELSE IF r.opened THEN <<Event("PRCreated")>> ELSE <<>>)
    /\ pc' = "updateStatus"
    /\ UNCHANGED <<spec, status, watch, deployment, obs, diagnosis, result, cancelled, faults>>
    /\ UNCHANGED <<args, ret, fresh, repository>>

\* A step 4e that goes on to the notification whether or not the patch succeeded.
UpdateStatus_NotifyAnyway ==
    /\ pc = "updateStatus"
    /\ \E o \in PatchOutcomes :
         /\ status' = patchStatus(o, UpdateStatusMut(status, diagnosis, prURL)).status
         /\ spec' = patchStatus(o, UpdateStatusMut(status, diagnosis, prURL)).spec
         /\ faults' = Faulted(o)
         /\ trace' = Append(trace, Patched("Final", o))
         /\ pc' = "sendNotification"
         /\ UNCHANGED result
    /\ UNCHANGED <<watch, deployment, obs, diagnosis, prURL, cancelled, prsOpened, commit>>
    /\ UNCHANGED <<args, ret, fresh, repository>>

\* Step 4e.
UpdateStatus ==
    /\ pc = "updateStatus"
    /\ \E o \in PatchOutcomes :
         /\ status' = patchStatus(o, UpdateStatusMut(status, diagnosis, prURL)).status
         /\ spec' = patchStatus(o, UpdateStatusMut(status, diagnosis, prURL)).spec
         /\ faults' = Faulted(o)
         /\ trace' = Append(trace, Patched("Final", o))
         /\ IF o = "ok" THEN pc' = "sendNotification" /\ UNCHANGED result
            ELSE Finish("error")
    /\ UNCHANGED <<watch, deployment, obs, diagnosis, prURL, cancelled, prsOpened, commit>>
    /\ UNCHANGED <<args, ret, fresh, repository>>

\* Step 4f: a notification failure is logged only.
SendNotification ==
    /\ pc = "sendNotification"
    /\ \E store \in SecretStores, webhookOK \in BOOLEAN :
         trace' = Append(trace, <<"notify", sendNotification(spec, store, webhookOK)>>)
    /\ Finish("requeueAfter")
    /\ UNCHANGED <<spec, status, watch, deployment, obs, diagnosis, prURL, cancelled, prsOpened,
                   commit, faults>>
    /\ UNCHANGED <<args, ret, fresh, repository>>

\* The context of the running invocation is cancelled (shutdown, deadline).
Cancel ==
    /\ pc \notin {"idle", "done", "gone"}
    /\ ~cancelled
    /\ faults < MaxFaults
    /\ cancelled' = TRUE
    /\ faults' = faults + 1
    /\ UNCHANGED <<spec, status, pc, watch, deployment, obs, diagnosis, prURL, result, trace,
                   prsOpened, commit>>
    /\ UNCHANGED <<args, ret, fresh, repository>>

Init ==
    /\ spec \in WatchSpecs
    /\ status = ZeroStatus
    /\ pc = "idle"
    /\ watch = ZeroStatus
    /\ deployment = NoDeployment
    /\ obs = NilContext
    /\ diagnosis = NoDiagnosis
    /\ prURL = NoURL
    /\ result = "none"
    /\ trace = <<>>
    /\ cancelled = FALSE
    /\ prsOpened = 0
    /\ commit = {}
    /\ faults = 0
    /\ args = NoCall
    /\ ret = NoCall
    /\ fresh = NoRead
    /\ repository = NoRepository

Next ==
    \/ Start
    \/ SetHealthy
    \/ Collect
    \/ PatchHealing
    \/ RunDiagnosis
    \/ PatchDegraded
    \/ MaybeOpenPR
    \/ UpdateStatus
    \/ SendNotification
    \/ Cancel

Spec == Init /\ [][Next]_vars

----------------------------------------------------------------------------
(* Collaborators that do not respond *)

Collaborators == {"groq", "ollama", "prometheus", "webhook", "github"}

\* http.Client.Timeout of the client built for each collaborator, in seconds; 0 is Go's
\* "no timeout", which is what oauth2.NewClient gives the GitHub client.
Timeout(c) ==
    CASE c = "groq" -> 60
      [] c = "ollama" -> 180
      [] c = "prometheus" -> 5
      [] c = "webhook" -> 10
      [] c = "github" -> 0

\* The step of Reconcile that calls collaborator c, when it does call it.
CallsNow(c) ==
    CASE c \in {"groq", "ollama"} ->
             pc = "runDiagnosis" /\ \E store \in SecretStores : NewFromSpec(spec, store) = c
      [] c = "prometheus" -> pc = "collect"
      [] c = "webhook" ->
             pc = "sendNotification" /\ spec.gitSecretRef # ""
      [] c = "github" ->
             /\ pc = "maybeOpenPR"
             /\ ShouldOpenPR(spec, diagnosis)
             /\ spec.gitSecretRef # ""
             /\ ~SplitRepo(spec.gitRepo).err

\* The collaborator called never responds.  With a client timeout the request fails when
\* the timeout expires, which is the failed call that the step of Reconcile already
\* covers; without one the worker stays in the call.
Hang ==
    /\ ~cancelled
    /\ \E c \in Collaborators :
         /\ CallsNow(c)
         /\ Timeout(c) = 0
    /\ pc' = "blocked"
    /\ UNCHANGED <<spec, status, watch, deployment, obs, diagnosis, prURL, result, trace,
                   cancelled, prsOpened, commit, faults, args, ret, fresh,
                   repository>>

\* A cancelled ctx ends the hung request: CreateHealingPR returns its error.
Unblock ==
    /\ pc = "blocked"
    /\ cancelled
    /\ \E repo \in Repos :
         LET r == CreateHealingPR(diagnosis, repo)
         IN trace' = trace \o Calls(<<"readSecretKey:token", "CreateHealingPR">> \o r.calls) \o
                     <<Failed(r.reason), Event("PRCreationFailed")>>
    /\ pc' = "updateStatus"
    /\ UNCHANGED <<spec, status, watch, deployment, obs, diagnosis, prURL, result, cancelled,
                   prsOpened, commit, faults, args, ret, fresh, repository>>

LiveNext == Next \/ Hang \/ Unblock

\* The worker goes on with the invocation it runs; the collaborators and the ctx owe it
\* nothing.
WorkerStep ==
    \/ SetHealthy
    \/ Collect
    \/ PatchHealing
    \/ RunDiagnosis
    \/ PatchDegraded
    \/ MaybeOpenPR
    \/ UpdateStatus
    \/ SendNotification
    \/ Unblock

LiveSpec == Init /\ [][LiveNext]_vars /\ WF_vars(WorkerStep)

----------------------------------------------------------------------------
(* Function-level specifications *)

\* No reconcile invocation runs in the function-level specifications.
IdleInit ==
    /\ status = ZeroStatus
    /\ pc = "idle"
    /\ watch = ZeroStatus
    /\ deployment = NoDeployment
    /\ obs = NilContext
    /\ diagnosis = NoDiagnosis
    /\ prURL = NoURL
    /\ result = "none"
    /\ trace = <<>>
    /\ prsOpened = 0
    /\ commit = {}
    /\ faults = 0
    /\ fresh = NoRead
    /\ repository = NoRepository

IdleFrame ==
    UNCHANGED <<spec, status, pc, watch, deployment, obs, diagnosis, prURL, result, trace,
                cancelled, prsOpened, commit, faults, fresh, repository>>

\* detectAnomaly.  The container statuses one pod can report: none yet, healthy, restarts
\* at the default threshold, and several containers in different failure states.
PodStatuses ==
    { << >>,
      << Container("app", 0, "", "") >>,
      << Container("app", 3, "", "Error") >>,
      << Container("app", 0, "OOMKilled", "") >>,
      << Container("app", 0, "CrashLoopBackOff", ""), Container("side", 5, "", "") >>,
      << Container("app", 2, "ImagePullBackOff", "Error"), Container("side", 1, "", "OOMKilled") >>,
      << Container("app", 4, "", ""), Container("side", 7, "CrashLoopBackOff", "OOMKilled") >> }

PodNames == <<"p1", "p2", "p3", "p4">>

\* The pod lists of up to MaxPods pods.
PodLists ==
    UNION { { [i \in 1..n |-> Pod(PodNames[i], cs[i])] : cs \in [1..n -> PodStatuses] } : n \in 0..MaxPods }

\* spec.restartThreshold: unset, or a value the CRD admits.
DetectSpecs == { WatchSpec(FALSE, "groq", "llm-secret", GoodRepo, "git-secret", t) : t \in {0, 1, 5} }

DetectInit ==
    /\ IdleInit
    /\ spec \in DetectSpecs
    /\ cancelled = FALSE
    /\ args \in [d : {Deployment(sel, pods, u) : sel \in BOOLEAN, pods \in PodLists, u \in {0, 2}},
                 listOK : BOOLEAN]
    /\ ret = NoCall

\* Reconcile step 3.
DetectCall ==
    /\ ret = NoCall
    /\ ret' = detectAnomaly(args.d, args.listOK, Threshold(spec))
    /\ UNCHANGED args
    /\ IdleFrame

DetectNext == DetectCall

DetectSpec == DetectInit /\ [][DetectNext]_vars

\* Collector.Collect.  A first pod of one or of two containers, the others of one.
CollectPodLists ==
    { pods \in PodLists :
        \A i \in 1..Len(pods) :
            \/ pods[i].containers = << Container("app", 3, "", "Error") >>
            \/ /\ i = 1
               /\ pods[i].containers =
                    << Container("app", 0, "CrashLoopBackOff", ""), Container("side", 5, "", "") >> }

\* What the two log streams of one container return.
LogOutcomes ==
    [cur : {StreamErr, StreamOK(""), StreamOK("cur")}, prev : {StreamErr, StreamOK("prev")}]

\* The events of the namespace while Collect runs.
CollectEvents ==
    << KubeEventOf("Warning", "Pod", "p1", 5, NoTime),
       KubeEventOf("Normal", "Deployment", "web", 7, NoTime) >>

CollectEnvs(d) ==
    [listOK : BOOLEAN, logs : [Positions(d) -> LogOutcomes], eventsOK : BOOLEAN,
     events : {CollectEvents}, prometheus : {"nil", "disabled", "ok", "err"}]

CollectInit ==
    /\ IdleInit
    /\ spec = WatchSpec(FALSE, "groq", "llm-secret", GoodRepo, "git-secret", 0)
    /\ cancelled = FALSE
    /\ \E pods \in CollectPodLists, sel \in BOOLEAN :
         LET d == Deployment(sel, pods, 1)
         IN \E env \in CollectEnvs(d) : args = [d |-> d, env |-> env]
    /\ ret = NoCall

CollectCall ==
    /\ ret = NoCall
    /\ ret' = CollectorCollect(args.d, args.env)
    /\ UNCHANGED args
    /\ IdleFrame

CollectNext == CollectCall

CollectSpec == CollectInit /\ [][CollectNext]_vars

\* FetchKubeEvents.  Events of the namespace: about a pod of the workload or about
\* another pod, of type Warning or Normal, with lastTimestamp or only eventTime set.
EventKinds ==
    { KubeEventOf("Warning", "Pod", "p1", 5, NoTime),
      KubeEventOf("Normal", "Pod", "p1", 9, NoTime),
      KubeEventOf("Warning", "Pod", "other", 7, NoTime),
      KubeEventOf("Normal", "Pod", "other", 8, NoTime),
      KubeEventOf("Warning", "Deployment", "web", NoTime, 10) }

\* A run of n Warning events about the workload, all seen at the same time.
Run(n) == [i \in 1..n |-> KubeEventOf("Warning", "Deployment", "web", 4, NoTime)]

RunLengths == {0, maxEvents - 1, maxEvents}

EventLists ==
    UNION { { mixed \o Run(n) : mixed \in [1..k -> EventKinds], n \in RunLengths } : k \in 0..MaxMixed }

EventsInit ==
    /\ IdleInit
    /\ spec = WatchSpec(FALSE, "groq", "llm-secret", GoodRepo, "git-secret", 0)
    /\ cancelled = FALSE
    /\ args \in [listOK : BOOLEAN, items : EventLists,
                 involvedNames : {{DeploymentName}, {DeploymentName, "p1"}}]
    /\ ret = NoCall

EventsCall ==
    /\ ret = NoCall
    /\ ret' = FetchKubeEvents(args.listOK, args.items, args.involvedNames)
    /\ UNCHANGED args
    /\ IdleFrame

EventsNext == EventsCall

EventsSpec == EventsInit /\ [][EventsNext]_vars

\* CreateHealingPR.  The repository: the manifest at the first, at a later or at no
\* conventional path, or content that does not decode at an earlier path.
PRFiles ==
    RepoFiles \cup { <<"file", "missing", "missing", "missing", "missing">>,
                     <<"missing", "undecodable", "missing", "file", "missing">> }

\* The manifest text: as JSONToYAML prints it, formatted otherwise (comments, key
\* order, indentation), or not YAML at all.
PRManifests == Manifests \cup { Manifest(FALSE, FALSE, BaseFields) }

\* The diagnoses Diagnose can return.
PRDiagnoses == { parseDiagnosis(r).d : r \in {x \in Replies : ~parseDiagnosis(x).err} }

PRInit ==
    /\ IdleInit
    /\ spec = WatchSpec(FALSE, "groq", "llm-secret", GoodRepo, "git-secret", 0)
    /\ cancelled \in BOOLEAN
    /\ args \in [d : PRDiagnoses,
                 repo : { Repo(f, m, x, NextPRURL) : f \in PRFiles, m \in PRManifests, x \in GHFailPoints }]
    /\ ret = NoCall

PRCall ==
    /\ ret = NoCall
    /\ ret' = CreateHealingPR(args.d, args.repo)
    /\ UNCHANGED args
    /\ IdleFrame

PRNext == PRCall

PRSpec == PRInit /\ [][PRNext]_vars

\* ApplyYAMLPatch.  Contents: text that is not YAML, YAML as JSONToYAML prints it, and
\* YAML formatted otherwise, with every value of the fields.
ApplyContents ==
    { m \in [valid : BOOLEAN, canonical : BOOLEAN, fields : [Fields -> {0, 1}]] :
        m.canonical => m.valid }

\* Patches: the empty string, text that is not YAML, and fragments setting one field.
ApplyPatches ==
    {EmptyPatch, GarbagePatch} \cup { YAMLPatch({<<f, v>>}) : f \in Fields, v \in {0, 1} }

ApplyInit ==
    /\ IdleInit
    /\ spec = WatchSpec(FALSE, "groq", "llm-secret", GoodRepo, "git-secret", 0)
    /\ cancelled = FALSE
    /\ args \in [currentYAML : ApplyContents, patchYAML : ApplyPatches]
    /\ ret = NoCall

ApplyCall ==
    /\ ret = NoCall
    /\ ret' = ApplyYAMLPatch(args.currentYAML, args.patchYAML)
    /\ UNCHANGED args
    /\ IdleFrame

ApplyNext == ApplyCall

ApplySpec == ApplyInit /\ [][ApplyNext]_vars

\* findDeploymentFile.  Every answer of the Contents API at every conventional path.
FindLayouts == [1..NumConventionalPaths -> {"missing", "file", "notBase64", "undecodable"}]

FindInit ==
    /\ IdleInit
    /\ spec = WatchSpec(FALSE, "groq", "llm-secret", GoodRepo, "git-secret", 0)
    /\ cancelled = FALSE
    /\ args \in [files : FindLayouts]
    /\ ret = NoCall

FindCall ==
    /\ ret = NoCall
    /\ ret' = findDeploymentFile(args.files, 1, <<>>)
    /\ UNCHANGED args
    /\ IdleFrame

FindNext == FindCall

FindSpec == FindInit /\ [][FindNext]_vars

\* patchStatus taken step by step, with other writers of the status.  The statuses the
\* resource can have when patchStatus is called: a diagnosis or a score only after an
\* anomaly, a pull request only with a diagnosis.
PatchStatuses ==
    { w \in [phase : {"", PhaseHealthy, PhaseHealing, PhaseDegraded},
             lastDiagnosis : {NoText, <<"rc1", "w">>},
             lastPRURL : {NoURL, MaxHealingAttempts - 1},
             healingScore : {0, MaxHealingAttempts - 1},
             lastAnomalyTime : {NoTime, 1},
             conditions : {<< >>}] :
        /\ w.phase = "" => w = ZeroStatus
        /\ w.phase \in {PhaseHealing, PhaseDegraded} => w.lastAnomalyTime # NoTime
        /\ w.lastDiagnosis # NoText => w.lastAnomalyTime # NoTime
        /\ w.healingScore > 0 => w.lastDiagnosis # NoText
        /\ w.lastPRURL = (IF w.healingScore = 0 THEN NoURL ELSE w.healingScore) }

\* The four calls of patchStatus in Reconcile and setHealthy, with what their mutation
\* functions capture: now (step 4b), diagSummary and prURL (step 4e).
PatchCalls(w) ==
    { c \in [mut : {"Healthy", "Healing", "Degraded", "Final"},
             now : {IF w.lastAnomalyTime = 1 THEN 2 ELSE 1},
             d : {[rootCause |-> "rc2", patch |-> EmptyPatch, wittyLine |-> "w"]},
             url : {NoURL, w.healingScore + 1}] :
        /\ c.mut \in {"Degraded", "Final"} => w.phase = PhaseHealing
        /\ c.mut # "Final" => c.url = NoURL
        /\ c.mut = "Healing" => w.healingScore < MaxHealingAttempts }

\* mutFn(&watch).
Mutate(c, w) ==
    CASE c.mut = "Healthy"  -> SetHealthyMut(w)
      [] c.mut = "Healing"  -> SetHealingMut(w, c.now)
      [] c.mut = "Degraded" -> SetDegradedMut(w)
      [] c.mut = "Final"    -> UpdateStatusMut(w, c.d, c.url)

\* A patchStatus that mutates the copy its caller read at step 1.
Refetch_CallerCopy(persisted, callerCopy) == callerCopy

\* "var watch; r.Get(ctx, req.NamespacedName, &watch)": patchStatus reads the resource
\* again, into a variable of its own; the copy of its caller is not used.
Refetch(persisted, callerCopy) == persisted

\* client.MergeFrom(orig) ... Patch(modified): a JSON merge patch, the fields of modified
\* that differ from orig.  It carries no resourceVersion.
MergeFrom(orig, modified) ==
    [f \in {g \in DOMAIN modified : modified[g] # orig[g]} |-> modified[f]]

\* The API server applies a merge patch to the object it holds.
ApplyMergePatch(current, patch) ==
    [f \in DOMAIN current |-> IF f \in DOMAIN patch THEN patch[f] ELSE current[f]]

\* What another writer of the status can write: a reset of the healing score, or a phase.
OtherWrites(w) ==
    { [w EXCEPT !.healingScore = 0], [w EXCEPT !.phase = PhaseWatching] } \ {w}

\* What Reconcile read at step 1 of an invocation whose step 4b made the status w.
BeforeHealing(w) ==
    [w EXCEPT !.phase = PhaseHealthy,
              !.lastAnomalyTime = IF w.lastDiagnosis = NoText THEN NoTime ELSE 2]

\* What patchStatus returns: nil, or the error of the re-fetch or of the patch.
PatchReturn(err) == [err |-> err]

PatchInit ==
    /\ spec = WatchSpec(FALSE, "groq", "llm-secret", GoodRepo, "git-secret", 0)
    /\ status \in PatchStatuses
    /\ pc = "idle"
    /\ args \in PatchCalls(status)
    /\ watch = IF args.mut \in {"Degraded", "Final"} THEN BeforeHealing(status) ELSE status
    /\ deployment = NoDeployment
    /\ obs = NilContext
    /\ diagnosis = NoDiagnosis
    /\ prURL = NoURL
    /\ result = "none"
    /\ trace = <<>>
    /\ cancelled \in BOOLEAN
    /\ prsOpened = 0
    /\ commit = {}
    /\ faults = 0
    /\ ret = NoCall
    /\ fresh = NoRead
    /\ repository = NoRepository

PatchFrame ==
    UNCHANGED <<spec, pc, watch, deployment, obs, diagnosis, prURL, result, trace, cancelled,
                prsOpened, commit, args, repository>>

\* patchStatus, r.Get: fails on a cancelled ctx or an API error.
PatchGet ==
    /\ ret = NoCall
    /\ fresh = NoRead
    /\ \/ ~cancelled /\ fresh' = Refetch(status, watch) /\ UNCHANGED ret
       \/ ret' = PatchReturn("get") /\ UNCHANGED fresh
    /\ UNCHANGED <<status, faults>>
    /\ PatchFrame

\* patchStatus, mutFn and r.Status().Patch.
PatchWrite ==
    /\ ret = NoCall
    /\ fresh # NoRead
    /\ \/ /\ status' = ApplyMergePatch(status, MergeFrom(fresh, Mutate(args, fresh)))
          /\ ret' = PatchReturn("")
       \/ ret' = PatchReturn("patch") /\ UNCHANGED status
    /\ UNCHANGED <<fresh, faults>>
    /\ PatchFrame

\* Another writer patches the status while patchStatus runs.
OtherWriter ==
    /\ ret = NoCall
    /\ faults < MaxFaults
    /\ status' \in OtherWrites(status)
    /\ faults' = faults + 1
    /\ UNCHANGED <<ret, fresh>>
    /\ PatchFrame

PatchNext == PatchGet \/ PatchWrite \/ OtherWriter

PatchSpec == PatchInit /\ [][PatchNext]_vars

\* CreateHealingPR taken step by step, with other writers of the repository.  Revision v
\* of the manifest on the default branch: every edit of another writer changes the text.
Revision(v) == Manifest(TRUE, TRUE, [BaseFields EXCEPT !["image"] = v])

\* The blob SHA of a file: equal for equal bytes only.
BlobSHA(content) == <<"blob", content>>

\* No such branch, ref or pull request.
NoBranch == <<>>

\* A Contents API that takes the commit whatever SHA is sent.
UpdateFileAccepted_AnySHA(onBranch, sha) == TRUE

\* Repositories.UpdateFile: the SHA sent must be that of the file on the branch written,
\* else 409 Conflict.
UpdateFileAccepted(onBranch, sha) == BlobSHA(onBranch) = sha

\* What CreateHealingPR returns: the URL of the pull request, or the error of a step.
PRReturn(reason, url) == [err |-> reason # "", reason |-> reason, url |-> url]

CommitInit ==
    /\ spec = WatchSpec(FALSE, "groq", "llm-secret", GoodRepo, "git-secret", 0)
    /\ status = ZeroStatus
    /\ pc = "maybeOpenPR"
    /\ watch = ZeroStatus
    /\ deployment = NoDeployment
    /\ obs = NilContext
    /\ diagnosis = NoDiagnosis
    /\ prURL = NoURL
    /\ result = "running"
    /\ trace = <<>>
    /\ cancelled = FALSE
    /\ prsOpened = 0
    /\ commit = {}
    /\ faults = 0
    /\ args \in [d : PRDiagnoses]
    /\ ret = NoCall
    /\ fresh = NoRead
    /\ \E v \in {0, 1} :
         repository = [defaultBranch |-> Revision(v), healingBranch |-> NoBranch,
                       pullRequest |-> NoBranch, step |-> "find"]

\* A step of CreateHealingPR returns its error.
Fails(reason) ==
    /\ ret' = PRReturn(reason, NoURL)
    /\ repository' = [repository EXCEPT !.step = "returned"]
    /\ UNCHANGED <<fresh, prsOpened, commit>>

CommitFrame ==
    UNCHANGED <<spec, status, pc, watch, deployment, obs, diagnosis, prURL, result, trace,
                cancelled, args>>

\* Steps 1 and 2: findDeploymentFile on the default branch, ApplyYAMLPatch, no-op check.
LocateAndPatch ==
    /\ repository.step = "find"
    /\ \E files \in RepoFiles :
         LET found == findDeploymentFile(files, 1, <<>>)
             ap    == ApplyYAMLPatch(repository.defaultBranch, args.d.patch)
         IN IF found.err THEN Fails("find")
            ELSE IF ap.err THEN Fails("patch")
            ELSE IF ap.out = repository.defaultBranch THEN Fails("noChange")
            ELSE /\ fresh' = [fileContent |-> repository.defaultBranch,
                              fileSHA |-> BlobSHA(repository.defaultBranch),
                              patched |-> ap.out,
                              baseRef |-> NoBranch]
                 /\ repository' = [repository EXCEPT !.step = "defaultBranch"]
                 /\ UNCHANGED <<ret, prsOpened, commit>>
    /\ UNCHANGED faults
    /\ CommitFrame

\* Step 3: defaultBranch.
DefaultBranch ==
    /\ repository.step = "defaultBranch"
    /\ \/ /\ repository' = [repository EXCEPT !.step = "getRef"]
          /\ UNCHANGED <<ret, fresh, prsOpened, commit>>
       \/ Fails("defaultBranch")
    /\ UNCHANGED faults
    /\ CommitFrame

\* Step 4, createBranch: Git.GetRef of the default branch.
GetRef ==
    /\ repository.step = "getRef"
    /\ \/ /\ fresh' = [fresh EXCEPT !.baseRef = repository.defaultBranch]
          /\ repository' = [repository EXCEPT !.step = "createRef"]
          /\ UNCHANGED <<ret, prsOpened, commit>>
       \/ Fails("createBranch")
    /\ UNCHANGED faults
    /\ CommitFrame

\* Step 4, createBranch: Git.CreateRef at the commit GetRef returned.
CreateRef ==
    /\ repository.step = "createRef"
    /\ \/ /\ repository' = [repository EXCEPT !.healingBranch = fresh.baseRef,
                                                !.step = "commitFile"]
          /\ UNCHANGED <<ret, fresh, prsOpened, commit>>
       \/ Fails("createBranch")
    /\ UNCHANGED faults
    /\ CommitFrame

\* Step 5: commitFile on the healing branch with the SHA of step 1.
CommitFile ==
    /\ repository.step = "commitFile"
    /\ \/ /\ UpdateFileAccepted(repository.healingBranch, fresh.fileSHA)
          /\ repository' = [repository EXCEPT !.healingBranch = fresh.patched,
                                                !.step = "openPR"]
          /\ commit' = ChangedFields(repository.healingBranch, fresh.patched)
          /\ UNCHANGED <<ret, fresh, prsOpened>>
       \/ Fails("commitFile")
    /\ UNCHANGED faults
    /\ CommitFrame

\* Step 6: openPR from the healing branch.
OpenPR ==
    /\ repository.step = "openPR"
    /\ \/ /\ repository' = [repository EXCEPT !.pullRequest = repository.healingBranch,
                                                !.step = "returned"]
          /\ prsOpened' = prsOpened + 1
          /\ ret' = PRReturn("", NextPRURL)
          /\ UNCHANGED <<fresh, commit>>
       \/ Fails("openPR")
    /\ UNCHANGED faults
    /\ CommitFrame

\* Another writer commits a new revision of the manifest to the default branch.
ExternalEdit ==
    /\ repository.step # "returned"
    /\ faults < MaxFaults
    /\ repository' = [repository EXCEPT !.defaultBranch =
                          Revision(repository.defaultBranch.fields["image"] + 1)]
    /\ faults' = faults + 1
    /\ UNCHANGED <<ret, fresh, prsOpened, commit>>
    /\ CommitFrame

CommitNext ==
    \/ LocateAndPatch
    \/ DefaultBranch
    \/ GetRef
    \/ CreateRef
    \/ CommitFile
    \/ OpenPR
    \/ ExternalEdit

CommitSpec == CommitInit /\ [][CommitNext]_vars

\* runDiagnosis within step 4c.  Every provider the CRD admits, one it does not and none,
\* each with and without a secret reference.
BackendSpecs ==
    { WatchSpec(FALSE, provider, ref, GoodRepo, "git-secret", 0) :
        provider \in {"groq", "openai", "ollama", "bedrock", ""}, ref \in {"", "llm-secret"} }

\* The state at the start of step 4c of a first anomalous invocation; args holds what
\* the cluster answers for the secret and the oracle to the two attempts.
BackendInit ==
    /\ spec \in BackendSpecs
    /\ status = SetHealingMut(ZeroStatus, 1)
    /\ pc = "runDiagnosis"
    /\ watch = ZeroStatus
    /\ deployment \in {d \in Workloads : detectAnomaly(d, TRUE, Threshold(spec)).r.anomaly}
    /\ obs = MinimalContext(AnomalyReason, 1)
    /\ diagnosis = NoDiagnosis
    /\ prURL = NoURL
    /\ result = "running"
    /\ trace = <<Event("AnomalyDetected"), Call("Collect"), Patched("Healing", "ok")>>
    /\ cancelled = FALSE
    /\ prsOpened = 0
    /\ commit = {}
    /\ faults = 0
    /\ args \in [store : SecretStores, r1 : Replies, r2 : Replies]
    /\ ret = NoCall
    /\ fresh = NoRead
    /\ repository = NoRepository

BackendNext ==
    \/ RunDiagnosisWith(args.store, args.r1, args.r2)
    \/ PatchDegraded

BackendSpec == BackendInit /\ [][BackendNext]_vars

\* The backends that have a Diagnose method.
DiagnoseBackends == {s \in WatchSpecs : s.llmProvider \in {"groq", "ollama"}}

\* What the oracle can answer to one request of Diagnose.
DiagnoseReplies ==
    Replies \cup { Reply("apiError", "", EmptyPatch, ""), Reply("noChoices", "", EmptyPatch, "") }

\* LLMClient.Diagnose, called with a live or a cancelled ctx; args holds the oracle's
\* answers to the first and to the second request.
DiagnoseInit ==
    /\ IdleInit
    /\ spec \in DiagnoseBackends
    /\ cancelled \in BOOLEAN
    /\ args \in DiagnoseReplies \X DiagnoseReplies
    /\ ret = NoCall

DiagnoseCall ==
    /\ ret = NoCall
    /\ ret' = Diagnose(args[1], args[2])
    /\ UNCHANGED args
    /\ IdleFrame

DiagnoseNext == DiagnoseCall

DiagnoseSpec == DiagnoseInit /\ [][DiagnoseNext]_vars

----------------------------------------------------------------------------
(* Properties *)

InTrace(e) == \E i \in 1..Len(trace) : trace[i] = e

InTraceNext(e) == \E i \in 1..Len(trace') : trace'[i] = e

\* Position of the first occurrence of e in trace, 0 if none.
FirstIndex(e) ==
    IF InTrace(e) THEN CHOOSE i \in 1..Len(trace) : trace[i] = e /\ \A j \in 1..(i - 1) : trace[j] # e
    ELSE 0

GitHubCalls ==
    {Call("gh:GetContents"), Call("gh:GetRepository"), Call("gh:GetRef"), Call("gh:CreateRef"),
     Call("gh:UpdateFile"), Call("gh:CreatePullRequest")}

DiagnosisCalls == {Call("NewFromSpec"), Call("oracle")}

RemediationCalls == GitHubCalls \cup {Call("CreateHealingPR"), Call("readSecretKey:token")}

NoneInTrace(S) == \A i \in 1..Len(trace) : trace[i] \notin S

PatchIssued == \E i \in 1..Len(trace) : trace[i][1] = "patchStatus"

Notified == \E i \in 1..Len(trace) : trace[i][1] = "notify"

Returned == pc = "done"

\* C1: over any sequence of reconcile invocations, failed status patches and
\* cancellations included, at most MaxHealingAttempts pull requests are opened.
C1_ProposalsBounded == prsOpened <= MaxHealingAttempts

\* C2: an invocation that detects an anomaly with healingScore >= MaxHealingAttempts
\* calls neither the diagnosis engine nor the remediation workflow, issues no status
\* patch (the status stays what it was), emits HealingCapReached and returns
\* requeue-after-interval; so it does on every such invocation.
C2_CapReachedSkips ==
    (Returned /\ InTrace(Event("AnomalyDetected")) /\ watch.healingScore >= MaxHealingAttempts)
        => /\ NoneInTrace(DiagnosisCalls)
           /\ NoneInTrace(RemediationCalls)
           /\ ~PatchIssued
           /\ status = watch
           /\ InTrace(Event("HealingCapReached"))
           /\ result = "requeueAfter"

C2_Witness ==
    /\ Returned
    /\ InTrace(Event("AnomalyDetected"))
    /\ watch.healingScore >= MaxHealingAttempts
    /\ watch.phase = PhaseDegraded

\* C3: CreateHealingPR is invoked only when safeMode is false, the diagnosis patch is
\* non-empty and the healing score is below MaxHealingAttempts; with safe mode on or an
\* empty patch the invocation makes no call to the version-control API.
C3_RemediationGuard ==
    [][ /\ (InTraceNext(Call("CreateHealingPR")) /\ ~InTrace(Call("CreateHealingPR")))
            => /\ spec.safeMode = FALSE
               /\ diagnosis.patch # EmptyPatch
               /\ status.healingScore < MaxHealingAttempts
               /\ watch.healingScore < MaxHealingAttempts
        /\ (spec.safeMode \/ diagnosis'.patch = EmptyPatch)
            => \A i \in 1..Len(trace') : trace'[i] \notin GitHubCalls \cup {Call("CreateHealingPR")}
      ]_vars

C3_Witness ==
    /\ InTrace(Call("CreateHealingPR"))
    /\ InTrace(Call("gh:CreatePullRequest"))
    /\ watch.healingScore = MaxHealingAttempts - 1

\* C4: status.healingScore and status.lastPRUrl change only in the final status patch
\* of an invocation in which CreateHealingPR succeeded: the score by exactly +1, the URL
\* to that pull request's; on every other path both are left unchanged.
C4_ScoreOnlyOnSuccess ==
    [][ (status'.healingScore # status.healingScore \/ status'.lastPRURL # status.lastPRURL)
            => /\ pc = "updateStatus"
               /\ InTrace(Event("PRCreated"))
               /\ InTrace(Call("gh:CreatePullRequest"))
               /\ prURL = prsOpened
               /\ status'.healingScore = status.healingScore + 1
               /\ status'.lastPRURL = prURL
               /\ InTraceNext(Patched("Final", "ok"))
      ]_vars

C4_Witness ==
    /\ Returned
    /\ InTrace(Event("PRCreated"))
    /\ status.healingScore = watch.healingScore + 1
    /\ status.lastPRURL = prURL
    /\ watch.lastPRURL # NoURL

\* C5: whenever no invocation is running, status.healingScore equals the number of
\* pull requests opened so far.
C5_ScoreCountsProposals == (pc \in {"idle", "done"}) => status.healingScore = prsOpened

\* C6: no commit changes a manifest field outside the allow-list, whatever patch the
\* oracle returned.
C6_CommitWithinAllowList == commit \subseteq AllowedFields

HealthyInvocation == \E o \in {"ok", "getErr", "patchErr"} : InTrace(Patched("Healthy", o))

\* Everything of the status but the phase is what the invocation read.
OnlyPhaseChanged == status = [watch EXCEPT !.phase = status.phase]

\* C7 as claimed: an invocation that detects no anomaly sets phase = Healthy and returns
\* requeue-after-interval, changing nothing else and calling nothing else.
C7_HealthyAlways ==
    (Returned /\ HealthyInvocation)
        => /\ status.phase = PhaseHealthy
           /\ result = "requeueAfter"
           /\ OnlyPhaseChanged
           /\ Len(trace) = 1

\* C7 (amended): an invocation that detects no anomaly issues one status patch and makes
\* no other call.  If that patch succeeds the phase is Healthy, every other status field
\* is unchanged (the whole status, when the phase was Healthy already) and the invocation
\* returns requeue-after-interval; if the re-read or the patch fails the status is
\* unchanged and the invocation returns the error.
C7_HealthyFrame ==
    (Returned /\ HealthyInvocation)
        => /\ Len(trace) = 1
           /\ NoneInTrace(DiagnosisCalls \cup RemediationCalls \cup {Call("Collect")})
           /\ ~Notified
           /\ OnlyPhaseChanged
           /\ InTrace(Patched("Healthy", "ok"))
                => /\ status.phase = PhaseHealthy
                   /\ result = "requeueAfter"
                   /\ (watch.phase = PhaseHealthy => status = watch)
           /\ ~InTrace(Patched("Healthy", "ok"))
                => /\ status = watch
                   /\ result = "error"

C7_Witness ==
    /\ Returned
    /\ InTrace(Patched("Healthy", "ok"))
    /\ watch.phase = PhaseDegraded
    /\ watch.healingScore > 0
    /\ watch.lastAnomalyTime # NoTime
    /\ status.phase = PhaseHealthy

FinalPatchIssued == \E o \in {"ok", "getErr", "patchErr"} : InTrace(Patched("Final", o))

C10_Order ==
    /\ InTrace(Call("oracle"))
         => /\ 0 < FirstIndex(Call("Collect"))
            /\ FirstIndex(Call("Collect")) < FirstIndex(Patched("Healing", "ok"))
            /\ FirstIndex(Patched("Healing", "ok")) < FirstIndex(Call("oracle"))
    /\ \A o \in {"ok", "getErr", "patchErr"} :
         InTrace(Patched("Healing", o))
            => /\ 0 < FirstIndex(Call("Collect"))
               /\ FirstIndex(Call("Collect")) < FirstIndex(Patched("Healing", o))
    /\ \A o \in {"getErr", "patchErr"} :
         InTrace(Patched("Healing", o))
            => /\ NoneInTrace(DiagnosisCalls)
               /\ Returned
               /\ result = "error"

\* C10: in an anomalous under-cap invocation the oracle is called only after the status
\* patch setting phase = Healing and lastAnomalyTime has been persisted; if that patch
\* fails the invocation returns an error without calling the oracle; the snapshot
\* collection precedes the Healing patch.
C10_OracleAfterHealing ==
    /\ []C10_Order
    /\ [][ (InTraceNext(Call("oracle")) /\ ~InTrace(Call("oracle")))
             => /\ status.phase = PhaseHealing
                /\ status.lastAnomalyTime # NoTime
                /\ status.lastAnomalyTime # watch.lastAnomalyTime
                /\ obs # NilContext
         ]_vars

C10_Witness ==
    /\ InTrace(Call("oracle"))
    /\ pc = "maybeOpenPR"
    /\ status.phase = PhaseHealing
    /\ watch.phase = PhaseHealthy
    /\ watch.lastAnomalyTime # NoTime

----------------------------------------------------------------------------
(* Diagnosis engine properties, under DiagnoseSpec *)

\* An attempt fails on a cancelled ctx, a transport error, an API error, an answer
\* without choices, content that is not JSON, or JSON with an empty rootCause.
AttemptFails(reply) ==
    \/ cancelled
    \/ reply.kind \in {"transport", "apiError", "noChoices", "malformed"}
    \/ reply.rootCause = ""

Parsed(reply) ==
    [rootCause |-> reply.rootCause, patch |-> reply.patch, wittyLine |-> reply.wittyLine]

\* C11: Diagnose makes at most two oracle attempts per call; the second attempt is made
\* if and only if the first failed, for whatever reason; a successful first attempt is
\* returned without a second request; after two failed attempts an error is returned and
\* no third attempt is made.
C11_AtMostTwoAttempts ==
    ret # NoCall
        => /\ Len(ret.calls) \in {1, 2}
           /\ \A i \in 1..Len(ret.calls) : ret.calls[i] = "oracle"
           /\ Len(ret.calls) = 2 <=> AttemptFails(args[1])
           /\ ~AttemptFails(args[1]) => (~ret.err /\ ret.d = Parsed(args[1]))
           /\ (AttemptFails(args[1]) /\ ~AttemptFails(args[2]))
                => (~ret.err /\ ret.d = Parsed(args[2]))
           /\ (AttemptFails(args[1]) /\ AttemptFails(args[2])) => ret.err

C11_Witness ==
    /\ ret # NoCall
    /\ ~cancelled
    /\ args[1].kind = "apiError"
    /\ args[2].kind = "malformed"
    /\ ret.err
    /\ Len(ret.calls) = 2

\* The oracle answered with JSON whose rootCause is missing or empty.
EmptyRootCause(reply) == reply.kind = "json" /\ reply.rootCause = ""

\* C12: every Diagnosis that Diagnose returns without error has a non-empty RootCause.
\* An answer whose JSON has no or an empty rootCause counts as a failed attempt: it is
\* followed by the retry when it was the first answer, by the error when it was the
\* second, and its content is never what the caller receives, so never what the
\* controller persists or hands to the remediation.
C12_RootCauseNonEmpty ==
    ret # NoCall
        => /\ ~ret.err => ret.d.rootCause # ""
           /\ ret.err => ret.d = NoDiagnosis
           /\ EmptyRootCause(args[1])
                => /\ Len(ret.calls) = 2
                   /\ ~ret.err => (ret.d = Parsed(args[2]) /\ ~EmptyRootCause(args[2]))
           /\ (AttemptFails(args[1]) /\ EmptyRootCause(args[2])) => ret.err
           /\ ~ret.err => /\ UpdateStatusMut(status, ret.d, NoURL).lastDiagnosis[1] # ""
                          /\ UpdateStatusMut(status, ret.d, NoURL).lastDiagnosis[1] = ret.d.rootCause

C12_Witness ==
    /\ ret # NoCall
    /\ ~cancelled
    /\ EmptyRootCause(args[1])
    /\ args[1].patch # EmptyPatch
    /\ ~ret.err
    /\ ret.d.rootCause = "rc1"
    /\ Len(ret.calls) = 2

----------------------------------------------------------------------------
(* Anomaly detection properties, under DetectSpec *)

\* The threshold in force: 3 when spec.restartThreshold is 0.
InForce == IF spec.restartThreshold = 0 THEN 3 ELSE spec.restartThreshold

OverThreshold(cs) == cs.restartCount >= InForce

Qualifies(cs) ==
    \/ OverThreshold(cs)
    \/ cs.waiting = "CrashLoopBackOff" \/ cs.waiting = "OOMKilled"
    \/ cs.lastTerminated = "OOMKilled"

\* The pods in another order, the containers of the pods chosen by rev reversed.
Reordered(d, p, rev) ==
    [d EXCEPT !.pods =
        [i \in 1..Len(d.pods) |->
            LET pod == d.pods[p[i]]
                n == Len(pod.containers)
            IN IF rev[i] THEN [pod EXCEPT !.containers = [j \in 1..n |-> pod.containers[n + 1 - j]]]
               ELSE pod]]

\* C13: when the pods were listed, detectAnomaly returns anomalous exactly when some
\* container has restartCount >= threshold, or is waiting with reason CrashLoopBackOff or
\* OOMKilled, or was last terminated with reason OOMKilled, or the workload has
\* unavailable replicas; the boolean is the same for every order of the pods and of
\* their containers; a threshold of 0 in the spec counts as 3.
C13_AnomalousIff ==
    (ret # NoCall /\ ret.err = "")
        => /\ ret.r.anomaly <=> \/ \E q \in Positions(args.d) : Qualifies(At(args.d, q))
                                \/ args.d.unavailableReplicas > 0
           /\ \A p \in Permutations(1..Len(args.d.pods)), rev \in [1..Len(args.d.pods) -> BOOLEAN] :
                detectAnomaly(Reordered(args.d, p, rev), args.listOK, Threshold(spec)).r.anomaly
                    = ret.r.anomaly

C13_Witness ==
    /\ ret # NoCall
    /\ ret.err = ""
    /\ spec.restartThreshold = 0
    /\ Len(args.d.pods) = 2
    /\ args.d.unavailableReplicas = 0
    /\ \E q \in Positions(args.d) : At(args.d, q).restartCount = 3
    /\ \A q \in Positions(args.d) :
          /\ At(args.d, q).restartCount \in {0, 3}
          /\ At(args.d, q).waiting = ""
          /\ At(args.d, q).lastTerminated # "OOMKilled"
    /\ ret.r.anomaly

\* The reason string names container q with its restart count:
\* "pod <ns>/<pod> container <name> has restarted <n> times".
MentionsRestarts(q) ==
    /\ ret.r.kind = "restarts"
    /\ ret.r.pod = args.d.pods[q[1]].name
    /\ ret.r.container = At(args.d, q).name
    /\ ret.r.n = At(args.d, q).restartCount

Before(g, q) == g[1] < q[1] \/ (g[1] = q[1] /\ g[2] < q[2])

\* q is the first container, in list order, that meets a per-container condition.
FirstMatch(q) ==
    /\ Qualifies(At(args.d, q))
    /\ \A g \in Positions(args.d) : Before(g, q) => ~Qualifies(At(args.d, g))

\* C14 as claimed: for every container whose restart count is >= the threshold,
\* detectAnomaly returns anomalous with a reason that mentions that container, its name
\* and its restart count, also when several pods or containers are failing.
C14_EveryOverThresholdNamed ==
    (ret # NoCall /\ ret.err = "")
        => \A q \in Positions(args.d) :
             OverThreshold(At(args.d, q)) => (ret.r.anomaly /\ MentionsRestarts(q))

\* C14 (amended): whenever some container has a restart count >= the threshold,
\* detectAnomaly returns anomalous and the reason names exactly one container: the first
\* one in list order (pods, then containers) that meets any per-container condition,
\* reported with the first condition it meets (restart count with the count, else the
\* waiting reason, else the OOMKilled termination).  A container over the threshold is
\* mentioned with its name and count if and only if it is that first container.
C14_FirstMatchNamed ==
    (ret # NoCall /\ ret.err = "")
        => \A q \in Positions(args.d) :
             OverThreshold(At(args.d, q))
                => /\ ret.r.anomaly
                   /\ MentionsRestarts(q) <=> FirstMatch(q)
                   /\ \E f \in Positions(args.d) :
                        /\ FirstMatch(f)
                        /\ ret.r.pod = args.d.pods[f[1]].name
                        /\ ret.r.container = At(args.d, f).name
                        /\ ret.r.kind =
                             IF OverThreshold(At(args.d, f)) THEN "restarts"
                             ELSE IF At(args.d, f).waiting \in {"CrashLoopBackOff", "OOMKilled"}
                             THEN At(args.d, f).waiting
                             ELSE "wasOOMKilled"
                        /\ ret.r.n = IF OverThreshold(At(args.d, f))
                                     THEN At(args.d, f).restartCount ELSE 0

\* Two pods, the first reported for its CrashLoopBackOff container, a later container
\* over the threshold left unmentioned.
C14_Witness ==
    /\ ret # NoCall
    /\ ret.err = ""
    /\ Len(args.d.pods) = 2
    /\ ret.r.anomaly
    /\ ret.r.kind = "CrashLoopBackOff"
    /\ ret.r.pod = "p1"
    /\ \E q \in Positions(args.d) : q[1] = 2 /\ OverThreshold(At(args.d, q))

----------------------------------------------------------------------------
(* Collector properties, under CollectSpec *)

LogsFetchFailed(q) ==
    /\ args.env.logs[q].cur.err \/ args.env.logs[q].cur.text = ""
    /\ args.env.logs[q].prev.err

Snapshot(q) == ret.obs.pods[q[1]].containers[q[2]]

\* C15: Collect returns an error exactly when the workload has no selector or the pod
\* list fails.  A failed log fetch, a failed event listing, a failed metrics query or no
\* metrics backend do not make it fail: the snapshot is returned with a pod entry for
\* every listed pod and a container entry for every container, the log placeholder where
\* the log fetch failed, no events where the listing failed, no metrics where the query
\* failed or no backend is configured.
C15_HardErrorOnlyOnList ==
    ret # NoCall
        => /\ ret.err <=> (~args.d.selector \/ ~args.env.listOK)
           /\ ~ret.err
                => /\ Len(ret.obs.pods) = Len(args.d.pods)
                   /\ \A i \in 1..Len(args.d.pods) :
                        Len(ret.obs.pods[i].containers) = Len(args.d.pods[i].containers)
                   /\ \A q \in Positions(args.d) :
                        /\ Snapshot(q).name = At(args.d, q).name
                        /\ LogsFetchFailed(q) <=> Snapshot(q).lastLogs = <<"[log unavailable]">>
                   /\ ~args.env.eventsOK => ret.obs.kubeEvents = <<>>
                   /\ args.env.prometheus \in {"nil", "disabled", "err"} <=> ret.obs.metrics = "nil"

C15_Witness ==
    /\ ret # NoCall
    /\ ~ret.err
    /\ Len(args.d.pods) = 2
    /\ \A q \in Positions(args.d) : LogsFetchFailed(q) /\ args.env.logs[q].cur.err
    /\ ~args.env.eventsOK
    /\ args.env.prometheus = "err"
    /\ ret.obs.pods[2].containers[1].lastLogs = <<"[log unavailable]">>

\* The log text is the previous instance's, tagged as such.
TaggedPrevious(q) ==
    /\ Len(Snapshot(q).lastLogs) = 2
    /\ Snapshot(q).lastLogs[1] = "[previous container]"
    /\ Snapshot(q).lastLogs[2] = args.env.logs[q].prev.text

\* C16: for every container of the snapshot, the logs are the current instance's
\* whenever the current fetch succeeds; they are the previous instance's, tagged as
\* previous, exactly when the current fetch fails and the previous fetch succeeds; they
\* are the placeholder exactly when both fetches fail.
C16_LogProtocol ==
    (ret # NoCall /\ ~ret.err)
        => \A q \in Positions(args.d) :
             /\ ~args.env.logs[q].cur.err => Snapshot(q).lastLogs = <<args.env.logs[q].cur.text>>
             /\ TaggedPrevious(q) <=> (args.env.logs[q].cur.err /\ ~args.env.logs[q].prev.err)
             /\ Snapshot(q).lastLogs = <<"[log unavailable]">>
                  <=> (args.env.logs[q].cur.err /\ args.env.logs[q].prev.err)

----------------------------------------------------------------------------
(* Event collection properties, under EventsSpec *)

\* A listed event that is warning-class and names the workload or one of its pods.
Qualifying(ev) == ev.type = "Warning" /\ ev.name \in args.involvedNames

QualifyingItems == {k \in 1..Len(args.items) : Qualifying(args.items[k])}

\* C17: every event FetchKubeEvents returns is warning-class and names the workload or
\* one of its pods; the list is sorted newest-first by last-seen time and has at most 20
\* entries, the 20 newest qualifying events.
C17_EventsQualified ==
    (ret # NoCall /\ ~ret.err)
        => /\ \A i \in 1..Len(ret.events) :
                /\ ret.events[i].type = "Warning"
                /\ ret.events[i].involvedObject[2] \in args.involvedNames
           /\ \A i, j \in 1..Len(ret.events) :
                i < j => ret.events[i].lastSeen >= ret.events[j].lastSeen
           /\ Len(ret.events) <= 20
           /\ Len(ret.events) = IF Cardinality(QualifyingItems) > 20 THEN 20
                                ELSE Cardinality(QualifyingItems)
           /\ \A k \in QualifyingItems :
                (\E i \in 1..Len(ret.events) : ret.events[i].lastSeen < LastSeen(args.items[k]))
                    => \E i \in 1..Len(ret.events) : ret.events[i] = KubeEvent(args.items[k])

----------------------------------------------------------------------------
(* Remediation workflow properties, under PRSpec *)

\* The API calls of the steps after the no-op check, in the order of the steps.
RemoteCalls ==
    <<"gh:GetRepository", "gh:GetRef", "gh:CreateRef", "gh:UpdateFile", "gh:CreatePullRequest">>

\* The number of GetContents calls at the head of the calls made.
Lookups == Cardinality({i \in 1..Len(ret.calls) : ret.calls[i] = "gh:GetContents"})

\* The calls made after the lookups.
AfterLookups == SubSeq(ret.calls, Lookups + 1, Len(ret.calls))

IsPrefix(a, b) == Len(a) <= Len(b) /\ a = SubSeq(b, 1, Len(a))

\* The remote calls a call returning at step reason has made.
ReachedBy(reason) ==
    CASE reason \in {"find", "patch", "noChange"} -> {0}
      [] reason = "defaultBranch" -> {1}
      [] reason = "createBranch" -> {2, 3}
      [] reason = "commitFile" -> {4}
      [] reason \in {"openPR", ""} -> {5}

\* The step at which the repository makes the call fail.
FailingStep ==
    CASE args.repo.failAt \in {"getRef", "createRef"} -> "createBranch"
      [] args.repo.failAt = "none" -> IF cancelled THEN "defaultBranch" ELSE ""
      [] OTHER -> args.repo.failAt

\* C18: CreateHealingPR runs locate/fetch, apply patch, no-op check, resolve default
\* branch, create branch, commit, open pull request in that order, each at most once;
\* when a step fails no later step runs and an error is returned; a pull request is
\* opened only after the branch creation and the commit of the same call succeeded.
C18_StepsInOrder ==
    ret # NoCall
        => /\ Lookups \in 1..NumConventionalPaths
           /\ \A i \in 1..Lookups : ret.calls[i] = "gh:GetContents"
           /\ IsPrefix(AfterLookups, RemoteCalls)
           /\ ret.err <=> ret.reason # ""
           /\ Len(AfterLookups) \in ReachedBy(ret.reason)
           /\ ret.reason \notin {"", "find", "patch", "noChange"} => ret.reason = FailingStep
           /\ ret.err
                => /\ ~ret.opened
                   /\ ret.url = NoURL
                   /\ ret.reason # "openPR" => ~ret.committed
           /\ ~ret.err
                => /\ FailingStep = ""
                   /\ ret.opened /\ ret.committed
                   /\ ret.url = args.repo.url
           /\ ret.opened
                => /\ AfterLookups = RemoteCalls
                   /\ args.repo.failAt \notin {"getRef", "createRef", "commitFile"}

C18_Witness ==
    /\ ret # NoCall
    /\ ~cancelled
    /\ args.repo.failAt = "commitFile"
    /\ ret.err
    /\ ret.reason = "commitFile"
    /\ ret.calls[Len(ret.calls)] = "gh:UpdateFile"
    /\ Lookups = 4

----------------------------------------------------------------------------
(* No-op patches, under Spec *)

\* CreateHealingPR returned "patch produced no change" in this invocation.
NoChange == InTrace(Failed("noChange"))

WriteCalls == {Call("gh:CreateRef"), Call("gh:UpdateFile"), Call("gh:CreatePullRequest")}

C19_NoWrite ==
    NoChange
        => /\ NoneInTrace(WriteCalls \cup {Call("gh:GetRepository"), Call("gh:GetRef")})
           /\ InTrace(Call("gh:GetContents"))
           /\ InTrace(Event("PRCreationFailed"))
           /\ ~InTrace(Event("PRCreated"))
           /\ prURL = NoURL
           /\ commit = {}
           /\ status.healingScore = watch.healingScore
           /\ status.lastPRURL = watch.lastPRURL
           /\ Returned
                => /\ FinalPatchIssued
                   /\ InTrace(Patched("Final", "ok"))
                        => /\ status.phase = PhaseDegraded
                           /\ status.lastDiagnosis = <<diagnosis.rootCause, diagnosis.wittyLine>>
                           /\ result = "requeueAfter"
                   /\ ~InTrace(Patched("Final", "ok"))
                        => /\ status.phase = PhaseHealing
                           /\ result = "error"

----------------------------------------------------------------------------
(* No-op patches, under PRSpec *)

\* Every field the patch sets already has that value in the manifest.
IdenticalInEffect ==
    /\ args.repo.content.valid
    /\ args.d.patch.kind = "yaml"
    /\ \A fv \in args.d.patch.sets : args.repo.content.fields[fv[1]] = fv[2]

\* C20: a patch identical in effect to the manifest found is detected as a no-op and
\* reported as a failed attempt, with no branch, commit or pull request, whatever the
\* formatting, key order or comments of the manifest text.
C20_NoopDetected ==
    (ret # NoCall /\ ret.reason # "find" /\ IdenticalInEffect)
        => /\ ret.err
           /\ ret.reason = "noChange"
           /\ \A i \in 1..Len(ret.calls) :
                ret.calls[i] \notin {"gh:CreateRef", "gh:UpdateFile", "gh:CreatePullRequest"}

----------------------------------------------------------------------------
(* Patch application properties, under ApplySpec *)

\* C21: ApplyYAMLPatch with the empty patch string returns the original content
\* unchanged (the same bytes) and no error, for every original content, content that is
\* not valid YAML included.
C21_EmptyPatchIsIdentity ==
    (ret # NoCall /\ args.patchYAML.kind = "empty")
        => /\ ~ret.err
           /\ ret.out = args.currentYAML

C21_Witness ==
    /\ ret # NoCall
    /\ args.patchYAML.kind = "empty"
    /\ ~args.currentYAML.valid
    /\ args.currentYAML.fields["limits"] = 1
    /\ ~ret.err
    /\ ret.out = args.currentYAML

----------------------------------------------------------------------------
(* Status patch properties, under PatchSpec *)

\* The step in which patchStatus sends its patch and returns.
PatchSent == fresh # NoRead /\ ret = NoCall /\ ret' # NoCall

\* C22: every status patch is conditional on the resource version it read: when another
\* writer has modified the resource between the re-read and the patch, the patch is
\* rejected with a conflict and not applied, so that no concurrent update of the status
\* is overwritten.
C22_ConflictRejected ==
    [][ (PatchSent /\ status # fresh) => (ret'.err = "patch" /\ status' = status) ]_vars

\* The value the mutation function of the call gives field f of the re-read copy.
Mutated(f) ==
    CASE f = "phase" ->
             (CASE args.mut = "Healthy" -> "Healthy"
                [] args.mut = "Healing" -> "Healing"
                [] OTHER -> "Degraded")
      [] f = "lastAnomalyTime" -> IF args.mut = "Healing" THEN args.now ELSE fresh.lastAnomalyTime
      [] f = "lastDiagnosis" ->
             IF args.mut = "Final" THEN <<args.d.rootCause, args.d.wittyLine>> ELSE fresh.lastDiagnosis
      [] f = "lastPRURL" ->
             IF args.mut = "Final" /\ args.url # NoURL THEN args.url ELSE fresh.lastPRURL
      [] f = "healingScore" ->
             IF args.mut = "Final" /\ args.url # NoURL THEN fresh.healingScore + 1
             ELSE fresh.healingScore
      [] f = "conditions" -> fresh.conditions

\* C24: every status mutation re-reads the resource immediately before patching and
\* computes its change from that fresh copy: the healingScore increment is applied to the
\* re-read value, and what an earlier step of the same cycle (phase Healing,
\* lastAnomalyTime) or another writer wrote before the re-read is not reverted to what
\* the invocation read at its start.
C24_FreshCopy ==
    /\ [][ (fresh = NoRead /\ fresh' # NoRead) => fresh' = status ]_vars
    /\ [][ (PatchSent /\ ret'.err = "")
              => /\ \A f \in DOMAIN status : status'[f] \in {status[f], Mutated(f)}
                 /\ status = fresh => \A f \in DOMAIN status : status'[f] = Mutated(f)
                 /\ (args.mut = "Final" /\ args.url # NoURL)
                      => status'.healingScore = fresh.healingScore + 1
                 /\ ~(args.mut = "Final" /\ args.url # NoURL)
                      => status'.healingScore = status.healingScore
                 /\ args.mut # "Healing" => status'.lastAnomalyTime = status.lastAnomalyTime
       ]_vars
    /\ [][ (ret = NoCall /\ ret' # NoCall /\ ret'.err # "") => status' = status ]_vars

\* The final patch of an invocation that opened a pull request, after another writer
\* reset the score: the increment is applied to the reset value, the time written at
\* step 4b is kept.
C24_Witness ==
    /\ ret # NoCall
    /\ ret.err = ""
    /\ args.mut = "Final"
    /\ args.url # NoURL
    /\ faults = 1
    /\ watch.healingScore = MaxHealingAttempts - 1
    /\ status.healingScore = 1
    /\ status.lastAnomalyTime # watch.lastAnomalyTime
    /\ status.phase = PhaseDegraded

----------------------------------------------------------------------------
(* Frame of the resource, under Spec *)

\* The step ends with a successful patchStatus.
StatusPatched ==
    /\ Len(trace') = Len(trace) + 1
    /\ \E what \in {"Healthy", "Healing", "Degraded", "Final"} :
         trace'[Len(trace')] = <<"patchStatus", what, "ok">>

\* C23: the controller never mutates the spec of the resource: over any sequence of
\* invocations, on any path, every write it makes goes to the status subresource, and
\* the spec fields (provider, secret refs, repository, safeMode, restartThreshold) are
\* unchanged.
C23_SpecNeverWritten ==
    [][ /\ spec' = spec
        /\ status' # status => StatusPatched
      ]_vars

\* Four status patches over two invocations, the threshold of the spec still unset.
C23_Witness ==
    /\ Returned
    /\ InTrace(Patched("Healing", "ok"))
    /\ InTrace(Patched("Final", "ok"))
    /\ status.healingScore = 2
    /\ spec.restartThreshold = 0
    /\ spec.safeMode = FALSE

----------------------------------------------------------------------------
(* Invocation paths, under Spec *)

\* The invocation found an anomaly with the healing score at the cap.
AtCap == InTrace(Event("AnomalyDetected")) /\ watch.healingScore >= MaxHealingAttempts

\* C25 as claimed: in an invocation that finds an anomaly with the healing score at the
\* cap, the HealingCapReached event is the only observable effect: no other event, no
\* status write, no oracle, version-control or notification call.
C25_CapEventOnly ==
    (Returned /\ AtCap)
        => /\ trace = <<Event("HealingCapReached")>>
           /\ status = watch

\* C25 (amended): in an invocation that finds an anomaly with the healing score at the
\* cap, the observable effects are the AnomalyDetected event that every detected anomaly
\* produces, followed by the HealingCapReached event, and nothing else: no other event,
\* no status write, no snapshot collection, no oracle, version-control or notification
\* call; the invocation returns at once with requeue-after-interval.
C25_CapEventsOnly ==
    /\ AtCap
         => /\ trace = <<Event("AnomalyDetected"), Event("HealingCapReached")>>
            /\ Returned
            /\ result = "requeueAfter"
            /\ status = watch
            /\ prURL = NoURL
            /\ commit = {}
            /\ obs = NilContext
            /\ diagnosis = NoDiagnosis
    /\ InTrace(Event("HealingCapReached")) => AtCap

C25_Witness ==
    /\ Returned
    /\ AtCap
    /\ InTrace(Event("HealingCapReached"))
    /\ status.healingScore = MaxHealingAttempts
    /\ status.phase = PhaseDegraded
    /\ spec.safeMode = FALSE

\* How often e occurs in trace.
Count(e) == Cardinality({i \in 1..Len(trace) : trace[i] = e})

\* detectAnomaly returned an anomaly in this invocation: the workload read has one, and
\* the invocation did not end on the error of the pod list.
DetectedAnomaly ==
    /\ detectAnomaly(deployment, TRUE, Threshold(spec)).err = ""
    /\ detectAnomaly(deployment, TRUE, Threshold(spec)).r.anomaly
    /\ ~(Returned /\ result = "error" /\ trace = <<>>)

\* runDiagnosis was called in this invocation.
DiagnosisRun == InTrace(Call("NewFromSpec"))

\* C26: every invocation that detects an anomaly emits exactly one AnomalyDetected event,
\* before any diagnosis call; every invocation in which the diagnosis step was run emits
\* exactly one of DiagnosisComplete and DiagnosisFailed, never both and never neither;
\* a cap-exceeded invocation emits the distinct HealingCapReached event.
C26_EventProtocol ==
    /\ Count(Event("AnomalyDetected")) = (IF DetectedAnomaly THEN 1 ELSE 0)
    /\ DetectedAnomaly => trace[1] = Event("AnomalyDetected")
    /\ Count(Event("DiagnosisComplete")) + Count(Event("DiagnosisFailed"))
         = (IF DiagnosisRun THEN 1 ELSE 0)
    /\ DiagnosisRun
         => /\ DetectedAnomaly
            /\ FirstIndex(Event("AnomalyDetected")) < FirstIndex(Call("NewFromSpec"))
            /\ InTrace(Event("DiagnosisComplete")) <=> diagnosis.rootCause # ""
    /\ InTrace(Call("oracle")) => DiagnosisRun
    /\ Count(Event("HealingCapReached"))
         = (IF DetectedAnomaly /\ watch.healingScore >= MaxHealingAttempts THEN 1 ELSE 0)
    /\ InTrace(Event("HealingCapReached")) => ~DiagnosisRun

\* A diagnosis that failed after two oracle calls on a cancelled ctx.
C26_Witness ==
    /\ Returned
    /\ cancelled
    /\ Count(Event("AnomalyDetected")) = 1
    /\ Count(Event("DiagnosisFailed")) = 1
    /\ Count(Call("oracle")) = 2
    /\ watch.healingScore > 0

FailedPatch(what) == InTrace(Patched(what, "getErr")) \/ InTrace(Patched(what, "patchErr"))

\* C27: every invocation on an existing resource ends in a requeue: on every path it
\* returns requeue-after-interval or an error, which the framework requeues; the only
\* return without requeue and without error is that of an invocation that found the
\* resource deleted.
C27_AlwaysRequeued ==
    /\ Returned
         => /\ result \in {"requeueAfter", "error"}
            /\ InTrace(Event("DeploymentNotFound")) => result = "requeueAfter"
            /\ InTrace(Patched("Healthy", "ok")) => result = "requeueAfter"
            /\ InTrace(Event("HealingCapReached")) => result = "requeueAfter"
            /\ InTrace(Event("DiagnosisFailed")) => result = "requeueAfter"
            /\ InTrace(Patched("Final", "ok")) => result = "requeueAfter"
            /\ (FailedPatch("Healthy") \/ FailedPatch("Healing") \/ FailedPatch("Final"))
                 => result = "error"
            /\ trace = <<>> => result = "error"
    /\ result = "noRequeue" <=> pc = "gone"
    /\ pc = "gone" => (trace = <<>> /\ watch = ZeroStatus)

\* A remediation failure followed by a notification failure.
C27_Witness ==
    /\ Returned
    /\ InTrace(Failed("createBranch"))
    /\ InTrace(<<"notify", "failed">>)
    /\ result = "requeueAfter"

\* The workload read has no pod selector.
NoSelector == deployment # NoDeployment /\ ~deployment.selector

FinalPersisted ==
    /\ InTrace(Patched("Final", "ok"))
    /\ status.phase = PhaseDegraded
    /\ status.lastDiagnosis = <<diagnosis.rootCause, diagnosis.wittyLine>>
    /\ prURL # NoURL
         => /\ status.lastPRURL = prURL
            /\ status.healingScore = watch.healingScore + 1
    /\ prURL = NoURL
         => /\ status.lastPRURL = watch.lastPRURL
            /\ status.healingScore = watch.healingScore

\* C29: the notification is best-effort and last: it is sent only after the final status
\* patch (phase Degraded, lastDiagnosis, and on success lastPRUrl and the score) has been
\* persisted, and a failed notification changes neither the persisted status nor the
\* result of the invocation, which is requeue-after-interval without error.
C29_NotificationLast ==
    /\ [](pc = "sendNotification" => FinalPersisted)
    /\ [](Notified
            => /\ FinalPersisted
               /\ Returned
               /\ result = "requeueAfter"
               /\ trace[Len(trace)][1] = "notify"
               /\ \A i \in 1..(Len(trace) - 1) : trace[i][1] # "notify")
    /\ [][ (pc = "sendNotification" /\ pc' # pc)
             => /\ status' = status
                /\ result' = "requeueAfter"
                /\ trace'[Len(trace')] \in {<<"notify", o>> : o \in {"sent", "failed", "skipped"}}
         ]_vars

\* The webhook fails after a pull request was opened and recorded.
C29_Witness ==
    /\ Returned
    /\ InTrace(Event("PRCreated"))
    /\ InTrace(<<"notify", "failed">>)
    /\ ~cancelled
    /\ status.lastPRURL = prURL
    /\ status.healingScore = 2
    /\ result = "requeueAfter"

----------------------------------------------------------------------------
(* Termination, under LiveSpec *)

\* C30: every reconcile invocation eventually returns even if an external collaborator
\* never responds: a stuck call to the oracle, the metrics backend, the version-control
\* API or the notification webhook fails through a timeout, so that no worker stays
\* blocked in a single hung call.
C30_EventuallyReturns == (pc \notin {"idle", "done", "gone"}) ~> (pc = "done")

----------------------------------------------------------------------------
(* Cancellation, under Spec *)

\* The cluster events among the first n entries of a trace.
EventsIn(t, n) == {i \in 1..n : t[i][1] = "event"}

\* The notifications delivered among the entries of a trace.
DeliveredIn(t) == {i \in 1..Len(t) : t[i] = <<"notify", "sent">>}

\* An invocation is running.
Running == pc \notin {"idle", "done", "gone"}

\* C31: once the ctx of an invocation is cancelled, the remaining steps of that cycle
\* produce no new externally visible effect: no status patch is applied, no branch,
\* commit or pull request is made, no notification is delivered and no cluster event is
\* emitted by that invocation; what was done before the cancellation stays.
C31_NoEffectAfterCancel ==
    [][ (Running /\ cancelled)
            => /\ status' = status
               /\ prsOpened' = prsOpened
               /\ commit' = commit
               /\ DeliveredIn(trace') = DeliveredIn(trace)
               /\ EventsIn(trace', Len(trace')) = EventsIn(trace, Len(trace))
      ]_vars

----------------------------------------------------------------------------
(* Manifest lookup properties, under FindSpec *)

\* The Contents API returns a file with base64 content for conventional path i.
ExistsAt(i) == args.files[i] \in {"file", "undecodable"}

\* C32: findDeploymentFile tries the conventional paths in their fixed order and returns
\* the first path that exists in the repository; it returns a hard error if and only if
\* none of the paths exists, so a manifest present at a later conventional path is found
\* whatever happens at the earlier paths.
C32_FirstExistingWins ==
    ret # NoCall
        => /\ ret.err <=> (\A i \in 1..NumConventionalPaths : ~ExistsAt(i))
           /\ ~ret.err
                => /\ ExistsAt(ret.path)
                   /\ \A i \in 1..(ret.path - 1) : ~ExistsAt(i)
           /\ \A i \in 1..NumConventionalPaths : args.files[i] = "file" => ~ret.err

----------------------------------------------------------------------------
(* Commit guard properties, under CommitSpec *)

\* The step in which commitFile returns.
CommitReturns == repository.step = "commitFile" /\ repository'.step # "commitFile"

\* The commit is rejected: no commit, no pull request, an error, no score increment.
CommitRejected ==
    /\ ret' # NoCall
    /\ ret'.err
    /\ ret'.reason = "commitFile"
    /\ repository'.healingBranch = repository.healingBranch
    /\ repository'.pullRequest = NoBranch
    /\ prsOpened' = prsOpened
    /\ commit' = commit
    /\ UpdateStatusMut(status, args.d, ret'.url).healingScore = status.healingScore

\* C33 as claimed: if the manifest is changed by another writer at any time between the
\* fetch of the locate step and the commit, the commit is rejected, no pull request is
\* opened and healingScore is not incremented.
C33_AnyEditRejected ==
    [][ (CommitReturns /\ repository.defaultBranch # fresh.fileContent) => CommitRejected ]_vars

\* C33 (amended): the commit is made on the new branch with the blob SHA fetched in the
\* locate step.  If the manifest was changed on the default branch between that fetch and
\* the cut of the new branch, the commit is rejected, no pull request is opened and
\* healingScore is not incremented; what is committed and proposed is the patch applied to
\* the very content the new branch was cut with.  A change made to the default branch
\* after the new branch was cut is not seen by the commit.
C33_CommitGuard ==
    /\ [][ (CommitReturns /\ fresh.baseRef # fresh.fileContent) => CommitRejected ]_vars
    /\ [][ (CommitReturns /\ repository'.step = "openPR")
              => /\ repository.healingBranch = fresh.fileContent
                 /\ repository'.healingBranch = ApplyYAMLPatch(fresh.baseRef, args.d.patch).out
                 /\ repository'.defaultBranch = repository.defaultBranch
         ]_vars
    /\ [](repository.pullRequest # NoBranch
            => /\ repository.pullRequest = ApplyYAMLPatch(fresh.baseRef, args.d.patch).out
               /\ fresh.baseRef = fresh.fileContent
               /\ prsOpened = 1
               /\ ~ret.err)
    /\ [](ret # NoCall /\ ret.err
            => /\ repository.pullRequest = NoBranch
               /\ prsOpened = 0
               /\ UpdateStatusMut(status, args.d, ret.url).healingScore = status.healingScore)

\* The manifest was edited between the fetch and the cut of the branch, and the commit was
\* refused.
C33_Witness ==
    /\ ret # NoCall
    /\ ret.reason = "commitFile"
    /\ fresh # NoRead
    /\ fresh.baseRef # fresh.fileContent
    /\ repository.healingBranch = fresh.baseRef
    /\ repository.healingBranch # fresh.patched
    /\ faults = 1

----------------------------------------------------------------------------
(* Collection failures, under Spec *)

\* The step is step 4a.
CollectStep == pc = "collect" /\ pc' # "collect"

\* The snapshot carries the workload identity, the anomaly reason and a capture time, and
\* nothing else.
IsMinimal(o) ==
    /\ o.deploymentName = "web"
    /\ o.anomalyReason.anomaly
    /\ o.anomalyReason = detectAnomaly(deployment, TRUE, Threshold(spec)).r
    /\ o.collectedAt # 0
    /\ o.pods = <<>>
    /\ o.kubeEvents = <<>>
    /\ o.metrics = "nil"

\* The snapshot has an entry for every pod of the workload.
IsFull(o) ==
    /\ o.deploymentName = "web"
    /\ Len(o.pods) = Len(deployment.pods)
    /\ Len(o.pods) > 0

\* C34: a hard error from Collect does not end the cycle: the controller substitutes a
\* minimal snapshot carrying only the workload identity, anomaly reason and capture time
\* (no pods, events or metrics) and goes on with it to the Healing patch and, that patch
\* persisted, to the diagnosis call.
C34_CollectErrorAbsorbed ==
    /\ [][ CollectStep
             => /\ pc' = "patchHealing"
                /\ result' = "running"
                /\ status' = status
                /\ trace' = Append(trace, <<"call", "Collect">>)
                /\ IsMinimal(obs') \/ IsFull(obs')
                /\ cancelled => IsMinimal(obs')
         ]_vars
    /\ [][ (pc = "patchHealing" /\ pc' # pc)
             => /\ obs' = obs
                /\ \E o \in {"ok", "getErr", "patchErr"} :
                     trace' = Append(trace, <<"patchStatus", "Healing", o>>)
                /\ pc' = "runDiagnosis" <=> trace'[Len(trace')] = <<"patchStatus", "Healing", "ok">>
         ]_vars
    /\ [][ (pc = "runDiagnosis" /\ pc' # pc)
             => /\ IsMinimal(obs) \/ IsFull(obs)
                /\ Len(trace') > Len(trace)
                /\ trace'[Len(trace) + 1] = <<"call", "NewFromSpec">>
         ]_vars
    /\ [](pc \in {"patchHealing", "runDiagnosis"} => (IsMinimal(obs) \/ IsFull(obs)))

\* The pod list of Collect failed on a live ctx, the Healing patch is persisted and the
\* diagnosis is about to be called with the minimal snapshot.
C34_Witness ==
    /\ pc = "runDiagnosis"
    /\ ~cancelled
    /\ IsMinimal(obs)
    /\ status.phase = PhaseHealing
    /\ watch.healingScore > 0

----------------------------------------------------------------------------
(* Backend selection properties, under BackendSpec *)

\* The secret reference is missing, the secret is missing or it has no apiKey key.
NoAPIKey == spec.llmSecretRef = "" \/ args.store \in {"noSecret", "noKey"}

\* NewFromSpec returns an error.
ConstructionError ==
    \/ spec.llmProvider \notin {"groq", "openai", "ollama"}
    \/ spec.llmProvider \in {"groq", "openai"} /\ NoAPIKey

\* Step 4c has run.
DiagnosisStepDone == pc # "runDiagnosis"

----------------------------------------------------------------------------
(* Notification content, under Spec *)

\* C36: the healing score reported in the outbound notification equals the healing score
\* persisted in status at the end of that cycle, in every case in which a notification is
\* sent (pull request opened, safe mode, empty patch, failed remediation).
C36_NotifiedScorePersisted ==
    (Returned /\ InTrace(<<"notify", "sent">>))
        => HealingUpdate(spec, watch, diagnosis, prURL).healingScore = status.healingScore

----------------------------------------------------------------------------
(* Phases at return, under Spec *)

\* C37: after an invocation that detected an anomaly has returned, the persisted phase is
\* never Healthy: no anomalous path, the cap-reached one included, returns leaving a
\* previously written Healthy phase in place.
C37_NeverHealthyAfterAnomaly ==
    (Returned /\ InTrace(Event("AnomalyDetected"))) => status.phase # "Healthy"

\* C38: Healing is a transient phase: whenever a reconcile invocation has returned, with
\* or without error, the persisted phase is not Healing.
C38_HealingTransient == Returned => status.phase # "Healing"

(* The healing score, under Spec *)

\* C39: with the score starting at or below the cap, the controller its only writer and
\* the invocations run one at a time, status.healingScore never exceeds
\* MaxHealingAttempts and never decreases.
C39_ScoreBoundedMonotone ==
    /\ [](status.healingScore <= MaxHealingAttempts)
    /\ [][status'.healingScore >= status.healingScore]_vars

C39_Witness ==
    /\ Returned
    /\ status.healingScore = MaxHealingAttempts
    /\ prsOpened = MaxHealingAttempts
    /\ InTrace(Event("HealingCapReached"))

(* The target workload does not exist, under Spec *)

\* C40: when the target workload does not exist, the invocation emits the
\* DeploymentNotFound warning event and returns requeue-after-interval without error; the
\* whole status is what it was when the invocation started, and no detection, collection,
\* diagnosis or remediation call was made.
C40_MissingWorkloadFrame ==
    InTrace(Event("DeploymentNotFound"))
        => /\ Returned
           /\ result = "requeueAfter"
           /\ trace = <<Event("DeploymentNotFound")>>
           /\ status = watch
           /\ deployment = NoDeployment
           /\ obs = NilContext
           /\ diagnosis = NoDiagnosis
           /\ prURL = NoURL
           /\ commit = {}

C40_Witness ==
    /\ Returned
    /\ trace = <<Event("DeploymentNotFound")>>
    /\ result = "requeueAfter"
    /\ status.phase = PhaseDegraded
    /\ status.healingScore > 0
    /\ status = watch

====
